---------------------------- MODULE Spec2Model ----------------------------
(***************************************************************************)
(* A model of python-aliyun's core (src/aliyun/connection.py): the        *)
(* credential resolver, the canonical signer, the request builder, the     *)
(* transport and the paginator.                                            *)
(*                                                                         *)
(* Text is modelled as a sequence of numbers: a Python 2 `str` is its      *)
(* sequence of bytes, a `unicode` its sequence of code points.             *)
(***************************************************************************)
EXTENDS Integers, Sequences, FiniteSets, TLC

VARIABLES
    \* ---- Connection.get (request builder, transport, paginator)
    conn,            \* the Connection object's fields
    params,          \* the caller's parameter dict (the object passed to get)
    paginated,       \* the paginated argument of the running get call
    pc,              \* position of the running get call
    parameters,      \* final parameter dict of the request in flight
    requests,        \* the requests issued by the running get call, in order
    served,          \* what the server answered to them, in order
    responses,       \* _perform_paginated_queries' local list of responses
    remaining_pages, \* _perform_paginated_queries' local
    i,               \* _perform_paginated_queries' loop counter
    result,          \* what the get call returned or raised
    clock,           \* time.gmtime(), in seconds since the connection was made
    nonces,          \* how many uuid4 values have been drawn
    \* ---- the signer's pure functions, applied to drawn inputs
    spc,             \* position of the signer harness
    request,         \* the value handed to _percent_encode
    encoding,        \* the encoding argument
    stdin_encoding,  \* sys.stdin.encoding
    encoded,         \* what _percent_encode returned or raised
    sign_items,      \* parameters.items() of the dict handed to _compute_signature
    secret,          \* the secret access key used to sign
    signature,       \* what _compute_signature returned
    first_signature, \* the signature computed for the first iteration order
    \* ---- find_credentials
    cpc,             \* position of find_credentials
    environ,         \* os.environ
    files,           \* the configuration files on disk
    lookups,         \* the environment and file system accesses made, in order
    creds,           \* what find_credentials returned or raised
    \* ---- the constructors
    ipc,             \* position of the constructor call
    init_args,       \* the class that is instantiated and its arguments
    \* ---- the service connections' methods
    apc,             \* position of the running method call
    call,            \* the method that was called and its arguments
    gets,            \* the parameter dicts the call handed to self.get, in order
    answers,         \* what self.get returned or raised for each of them
    local,           \* the local variables of the running method
    returned         \* what the method call returned or raised

get_vars == <<conn, params, paginated, pc, parameters, requests, served, responses,
              remaining_pages, i, result, clock, nonces>>
sign_vars == <<spc, request, encoding, stdin_encoding, encoded, sign_items,
               secret, signature, first_signature>>
cred_vars == <<cpc, environ, files, lookups, creds>>
init_vars == <<ipc, init_args>>
api_vars == <<apc, call, gets, answers, local, returned>>
\* the variables of Connection.get but the clock
request_vars == <<conn, params, paginated, pc, parameters, requests, served,
                  responses, remaining_pages, i, result, nonces>>
vars == <<get_vars, sign_vars, cred_vars, init_vars, api_vars>>

None == "None"

-----------------------------------------------------------------------------
(* Bounds of the model *)

\* pages the server's TotalCount can ask for
MaxPages == 3
\* characters of a drawn text
MaxTextLen == 2
\* entries of a drawn parameter dict
MaxParams == 3

-----------------------------------------------------------------------------
(* Evaluation helpers *)

\* Idiom: CHOOSE r \in {F(v) : v \in {x}} : TRUE is F(x), with x computed
\* first and once.

Min(a, b) == IF a < b THEN a ELSE b

Range(s) == {s[k] : k \in 1..Len(s)}

\* ''.join(ss) for ss[lo..hi]
RECURSIVE JoinRange(_, _, _)
JoinRange(ss, lo, hi) ==
    IF lo > hi THEN <<>>
    ELSE IF lo = hi THEN ss[lo]
    ELSE LET mid == (lo + hi) \div 2
         IN JoinRange(ss, lo, mid) \o JoinRange(ss, mid + 1, hi)

Join(ss) == JoinRange(ss, 1, Len(ss))

\* sep.join(ss)
JoinWith(sep, ss) ==
    Join([k \in 1..Len(ss) |-> IF k = 1 THEN ss[k] ELSE sep \o ss[k]])

-----------------------------------------------------------------------------
(* Python values: str (bytes), unicode (code points) and int *)

PyStr(bytes) == [type |-> "str", v |-> bytes]
PyUnicode(cps) == [type |-> "unicode", v |-> cps]
PyInt(n) == [type |-> "int", v |-> n]

\* str(n) / unicode(n) of a non-negative int: its decimal digits
RECURSIVE Decimal(_)
Decimal(n) ==
    IF n < 10 THEN <<48 + n>> ELSE Append(Decimal(n \div 10), 48 + (n % 10))

\* the UTF-8 bytes of one code point
Utf8Bytes(c) ==
    IF c < 128 THEN <<c>>
    ELSE IF c < 2048 THEN <<192 + (c \div 64), 128 + (c % 64)>>
    ELSE IF c < 65536
         THEN <<224 + (c \div 4096), 128 + ((c \div 64) % 64), 128 + (c % 64)>>
    ELSE <<240 + (c \div 262144), 128 + ((c \div 4096) % 64),
           128 + ((c \div 64) % 64), 128 + (c % 64)>>

\* u.encode('utf8')
Utf8Encode(cps) == Join([k \in 1..Len(cps) |-> Utf8Bytes(cps[k])])

IsContinuation(b) == b >= 128 /\ b < 192

\* number of bytes announced by a UTF-8 lead byte (0: not a lead byte)
Utf8Length(b) ==
    IF b < 128 THEN 1
    ELSE IF b >= 194 /\ b < 224 THEN 2
    ELSE IF b >= 224 /\ b < 240 THEN 3
    ELSE IF b >= 240 /\ b < 245 THEN 4
    ELSE 0

\* the code point that starts at byte k
Utf8CodePoint(bytes, k) ==
    LET n == Utf8Length(bytes[k])
    IN IF n = 1 THEN bytes[k]
       ELSE IF n = 2 THEN (bytes[k] - 192) * 64 + (bytes[k + 1] - 128)
       ELSE IF n = 3
            THEN (bytes[k] - 224) * 4096 + (bytes[k + 1] - 128) * 64
                 + (bytes[k + 2] - 128)
       ELSE (bytes[k] - 240) * 262144 + (bytes[k + 1] - 128) * 4096
            + (bytes[k + 2] - 128) * 64 + (bytes[k + 3] - 128)

\* whether the bytes are well-formed UTF-8
Utf8Valid(bytes) ==
    \A k \in 1..Len(bytes) :
        IF IsContinuation(bytes[k])
        THEN \E j \in 1..3 :
                /\ k - j >= 1
                /\ Utf8Length(bytes[k - j]) > j
                /\ \A m \in 1..(j - 1) : IsContinuation(bytes[k - m])
        ELSE LET n == Utf8Length(bytes[k])
             IN /\ n > 0
                /\ k + n - 1 <= Len(bytes)
                /\ \A m \in 1..(n - 1) : IsContinuation(bytes[k + m])
                /\ Utf8CodePoint(bytes, k) >=
                     (IF n = 1 THEN 0 ELSE IF n = 2 THEN 128
                      ELSE IF n = 3 THEN 2048 ELSE 65536)

\* s.decode(codec): [ok, v]
Decode(bytes, codec) ==
    IF codec = "ascii"
    THEN [ok |-> \A k \in 1..Len(bytes) : bytes[k] < 128, v |-> bytes]
    ELSE IF ~Utf8Valid(bytes) THEN [ok |-> FALSE, v |-> bytes]
    ELSE LET leads == SelectSeq([k \in 1..Len(bytes) |-> k],
                                LAMBDA k : ~IsContinuation(bytes[k]))
         IN [ok |-> TRUE,
             v |-> [k \in 1..Len(leads) |-> Utf8CodePoint(bytes, leads[k])]]

-----------------------------------------------------------------------------
(* urllib.quote and Connection._percent_encode *)

DEFAULT_ENCODING == "ascii"

\* urllib.always_safe: letters, digits and "_.-"
always_safe == (65..90) \cup (97..122) \cup (48..57) \cup {95, 46, 45}

HexDigits == <<48, 49, 50, 51, 52, 53, 54, 55, 56, 57, 65, 66, 67, 68, 69, 70>>

\* urllib.quote(s, safe): a byte outside always_safe and safe becomes %XX
quote(bytes, safe) ==
    Join([k \in 1..Len(bytes) |->
            IF bytes[k] \in always_safe \cup safe
            THEN <<bytes[k]>>
            ELSE <<37, HexDigits[(bytes[k] \div 16) + 1],
                   HexDigits[(bytes[k] % 16) + 1]>>])

\* encoding or sys.stdin.encoding or DEFAULT_ENCODING
EffectiveEncoding(enc, stdin_enc) ==
    IF enc # None THEN enc
    ELSE IF stdin_enc # None THEN stdin_enc
    ELSE DEFAULT_ENCODING

\* the try/except around unicode(request, encoding): [raised, v]
ToUnicode(req, codec) ==
    IF req.type = "str"
    THEN LET d == Decode(req.v, codec)
         IN IF d.ok THEN [raised |-> None, v |-> d.v]
            ELSE [raised |-> "UnicodeDecodeError", v |-> <<>>]
    ELSE IF req.type = "unicode" THEN [raised |-> None, v |-> req.v]
    ELSE [raised |-> None, v |-> Decimal(req.v)]

\* the safe characters of urllib.quote's default: safe='/'
QuoteDefaultSafe == {47}

\* the characters quote leaves alone in _percent_encode: safe='~'
PercentEncodeSafe == {126}

\* Connection._percent_encode(request, encoding): [raised, v]
_percent_encode(req, enc, stdin_enc) ==
    LET s == ToUnicode(req, EffectiveEncoding(enc, stdin_enc))
    IN IF s.raised # None THEN s
       ELSE [raised |-> None, v |-> quote(Utf8Encode(s.v), PercentEncodeSafe)]

-----------------------------------------------------------------------------
(* hashlib.sha1, hmac.new and base64.b64encode, as _compute_signature      *)
(* calls them.  A 32-bit word is a pair <<high, low>> of 16-bit halves.    *)

XorBits(a, b) ==
      ((a + b) % 2)
    + 2 * (((a \div 2) + (b \div 2)) % 2)
    + 4 * (((a \div 4) + (b \div 4)) % 2)
    + 8 * (((a \div 8) + (b \div 8)) % 2)

\* the exclusive or of two 4-bit numbers, tabulated
XorNibble == [k \in 1..256 |-> XorBits((k - 1) \div 16, (k - 1) % 16)]

Xor8(a, b) ==
      XorNibble[16 * (a % 16) + (b % 16) + 1]
    + 16 * XorNibble[16 * (a \div 16) + (b \div 16) + 1]

Xor16(a, b) == Xor8(a % 256, b % 256) + 256 * Xor8(a \div 256, b \div 256)
And16(a, b) == (a + b - Xor16(a, b)) \div 2
Or16(a, b) == a + b - And16(a, b)

WXor(x, y) == <<Xor16(x[1], y[1]), Xor16(x[2], y[2])>>
WAnd(x, y) == <<And16(x[1], y[1]), And16(x[2], y[2])>>
WOr(x, y) == <<Or16(x[1], y[1]), Or16(x[2], y[2])>>
WAdd(x, y) ==
    LET lo == x[2] + y[2]
        hi == x[1] + y[1] + (lo \div 65536)
    IN <<hi % 65536, lo % 65536>>

\* rotate a word left by n bits, 0 < n < 16, where p = 2^n and q = 2^(16-n)
RotlBy(x, p, q) ==
    <<((x[1] * p) % 65536) + (x[2] \div q), ((x[2] * p) % 65536) + (x[1] \div q)>>
Rotl1(x) == RotlBy(x, 2, 32768)
Rotl5(x) == RotlBy(x, 32, 2048)
Rotl30(x) == RotlBy(<<x[2], x[1]>>, 16384, 4)

Sha1F(t, b, c, d) ==
    IF t < 20 THEN WXor(d, WAnd(b, WXor(c, d)))
    ELSE IF t < 40 THEN WXor(WXor(b, c), d)
    ELSE IF t < 60 THEN WOr(WAnd(b, c), WAnd(d, WOr(b, c)))
    ELSE WXor(WXor(b, c), d)

Sha1K(t) ==
    IF t < 20 THEN <<23170, 31129>>
    ELSE IF t < 40 THEN <<28377, 60321>>
    ELSE IF t < 60 THEN <<36635, 48348>>
    ELSE <<51810, 49622>>

Sha1H0 == <<<<26437, 8961>>, <<61389, 43913>>, <<39098, 56574>>,
            <<4146, 21622>>, <<50130, 57840>>>>

\* the message schedule: words lo+1..hi appended to w
RECURSIVE ScheduleRange(_, _, _)
ScheduleRange(w, lo, hi) ==
    IF hi = lo + 1
    THEN Append(w, Rotl1(WXor(WXor(w[hi - 3], w[hi - 8]),
                              WXor(w[hi - 14], w[hi - 16]))))
    ELSE LET mid == (lo + hi) \div 2
         IN CHOOSE r \in {ScheduleRange(v, mid, hi) :
                            v \in {ScheduleRange(w, lo, mid)}} : TRUE

Sha1Round(st, wt, t) ==
    <<WAdd(WAdd(WAdd(Rotl5(st[1]), Sha1F(t, st[2], st[3], st[4])),
                WAdd(st[5], Sha1K(t))), wt),
      st[1], Rotl30(st[2]), st[3], st[4]>>

\* rounds lo..hi-1 applied to st
RECURSIVE RoundsRange(_, _, _, _)
RoundsRange(st, w, lo, hi) ==
    IF hi = lo + 1 THEN Sha1Round(st, w[hi], lo)
    ELSE LET mid == (lo + hi) \div 2
         IN CHOOSE r \in {RoundsRange(v, w, mid, hi) :
                            v \in {RoundsRange(st, w, lo, mid)}} : TRUE

BlockWords(block) ==
    [k \in 1..16 |-> <<block[4 * k - 3] * 256 + block[4 * k - 2],
                       block[4 * k - 1] * 256 + block[4 * k]>>]

Sha1Compress(h, block) ==
    CHOOSE s \in {[k \in 1..5 |-> WAdd(h[k], r[k])] :
                    r \in {RoundsRange(h, w, 0, 80) :
                             w \in {ScheduleRange(w16, 16, 80) :
                                      w16 \in {BlockWords(block)}}}} : TRUE

Sha1Pad(m) ==
    LET bits == Len(m) * 8
    IN m \o <<128>> \o [k \in 1..((55 - Len(m)) % 64) |-> 0]
         \o <<0, 0, 0, 0, 0, (bits \div 65536) % 256, (bits \div 256) % 256,
              bits % 256>>

RECURSIVE Sha1Blocks(_, _, _)
Sha1Blocks(h, padded, k) ==
    IF k * 64 >= Len(padded) THEN h
    ELSE CHOOSE r \in {Sha1Blocks(v, padded, k + 1) :
                v \in {Sha1Compress(h, block) :
                         block \in {SubSeq(padded, k * 64 + 1, k * 64 + 64)}}} : TRUE

WordBytes(x) == <<x[1] \div 256, x[1] % 256, x[2] \div 256, x[2] % 256>>

\* hashlib.sha1(m).digest()
Sha1(m) ==
    CHOOSE d \in {Join([k \in 1..5 |-> WordBytes(h[k])]) :
                    h \in {Sha1Blocks(Sha1H0, padded, 0) :
                             padded \in {Sha1Pad(v) : v \in {m}}}} : TRUE

\* hmac.new(key, msg, sha1).digest()
HmacSha1(key, msg) ==
    LET k0 == IF Len(key) > 64 THEN Sha1(key) ELSE key
        k == [j \in 1..64 |-> IF j <= Len(k0) THEN k0[j] ELSE 0]
        ipad == [j \in 1..64 |-> Xor8(k[j], 54)]
        opad == [j \in 1..64 |-> Xor8(k[j], 92)]
    IN CHOOSE d \in {Sha1(outer) :
                       outer \in {opad \o inner :
                                    inner \in {Sha1(m) : m \in {ipad \o msg}}}} : TRUE

Base64Alphabet ==
    <<65, 66, 67, 68, 69, 70, 71, 72, 73, 74, 75, 76, 77, 78, 79, 80,
       81, 82, 83, 84, 85, 86, 87, 88, 89, 90, 97, 98, 99, 100, 101, 102,
       103, 104, 105, 106, 107, 108, 109, 110, 111, 112, 113, 114, 115,
       116, 117, 118, 119, 120, 121, 122, 48, 49, 50, 51, 52, 53, 54, 55,
       56, 57, 43, 47>>

\* base64.b64encode(bytes)
b64encode(bytes) ==
    LET n == Len(bytes)
        at(k) == IF k <= n THEN bytes[k] ELSE 0
        group(g) ==
            LET b1 == at(3 * g - 2)
                b2 == at(3 * g - 1)
                b3 == at(3 * g)
            IN <<Base64Alphabet[(b1 \div 4) + 1],
                 Base64Alphabet[((b1 % 4) * 16) + (b2 \div 16) + 1],
                 IF 3 * g - 1 > n THEN 61
                 ELSE Base64Alphabet[((b2 % 16) * 4) + (b3 \div 64) + 1],
                 IF 3 * g > n THEN 61 ELSE Base64Alphabet[(b3 % 64) + 1]>>
    IN Join([g \in 1..((n + 2) \div 3) |-> group(g)])

-----------------------------------------------------------------------------
(* Connection._compute_signature *)

\* a < b for two str values: byte-wise, the shorter first on a common prefix
StrLess(a, b) ==
    LET n == Min(Len(a), Len(b))
        diff == {k \in 1..n : a[k] # b[k]}
    IN IF diff = {} THEN Len(a) < Len(b)
       ELSE LET d == CHOOSE k \in diff : \A m \in diff : k <= m
            IN a[d] < b[d]

\* the pairs in the dict's iteration order
unsorted(items) == items

\* sorted(items): the (key, value) pairs by ascending key; a dict's keys differ
sorted(items) ==
    [r \in 1..Len(items) |->
        CHOOSE it \in Range(items) :
            Cardinality({o \in Range(items) : StrLess(o[1], it[1])}) = r - 1]

\* '%s=%s' % (_percent_encode(k), _percent_encode(v)); [raised, v]
EncodePair(it, enc, stdin_enc) ==
    LET k == _percent_encode(PyStr(it[1]), enc, stdin_enc)
        v == _percent_encode(it[2], enc, stdin_enc)
    IN IF k.raised # None THEN k
       ELSE IF v.raised # None THEN v
       ELSE [raised |-> None, v |-> k.v \o <<61>> \o v.v]

\* 'GET&/&'
PlainPrefix == <<71, 69, 84, 38, 47, 38>>

\* 'GET&%2F&'
StringToSignPrefix == <<71, 69, 84, 38, 37, 50, 70, 38>>

\* the signature over the encoded pairs of the sorted parameters, or the
\* first failure among them: [raised, v]
SignPairs(key, pairs, enc, stdin_enc) ==
    LET failed == {k \in 1..Len(pairs) : pairs[k].raised # None}
    IN IF failed # {}
       THEN pairs[CHOOSE k \in failed : \A m \in failed : k <= m]
       ELSE [raised |-> None,
             v |-> CHOOSE sig \in
                     {b64encode(h) :
                        h \in {HmacSha1(k, string_to_sign) :
                          k \in {key \o <<38>>},
                          string_to_sign \in
                            {StringToSignPrefix \o query.v :
                               query \in
                                 {_percent_encode(PyStr(canonicalized_query_string),
                                                 enc, stdin_enc) :
                                    canonicalized_query_string \in
                                      {JoinWith(<<38>>,
                                         [k \in 1..Len(pairs) |-> pairs[k].v])}}}}}
                     : TRUE]

\* Connection._compute_signature(parameters, encoding) with
\* self.secret_access_key = key: [raised, v]
_compute_signature(key, items, enc, stdin_enc) ==
    CHOOSE r \in
        {SignPairs(key, pairs, enc, stdin_enc) :
           pairs \in {[k \in 1..Len(sorted_params) |->
                         EncodePair(sorted_params[k], enc, stdin_enc)] :
                      sorted_params \in {sorted(items)}}}
        : TRUE

-----------------------------------------------------------------------------
(* Python dicts: a sequence of <<key, value>> pairs with distinct keys,    *)
(* in iteration order.  Keys are str values, given by their bytes.         *)

DictKeys(d) == {d[k][1] : k \in 1..Len(d)}

DictGet(d, key) == (CHOOSE it \in Range(d) : it[1] = key)[2]

\* d[key] = val
DictSet(d, key, val) ==
    IF key \in DictKeys(d)
    THEN [k \in 1..Len(d) |-> IF d[k][1] = key THEN <<key, val>> ELSE d[k]]
    ELSE Append(d, <<key, val>>)

\* d.update(other)
DictUpdate(d, other) ==
    [k \in 1..Len(d) |->
        IF d[k][1] \in DictKeys(other)
        THEN <<d[k][1], DictGet(other, d[k][1])>> ELSE d[k]]
    \o SelectSeq(other, LAMBDA it : it[1] \notin DictKeys(d))

\* d.pop(key), for a key of d
DictPop(d, key) == SelectSeq(d, LAMBDA it : it[1] # key)

-----------------------------------------------------------------------------
(* The parameter names and fixed values of Connection._build_request *)

\* 'Format'
T_Format == <<70, 111, 114, 109, 97, 116>>
\* 'JSON'
T_JSON == <<74, 83, 79, 78>>
\* 'Version'
T_Version == <<86, 101, 114, 115, 105, 111, 110>>
\* 'AccessKeyId'
T_AccessKeyId == <<65, 99, 99, 101, 115, 115, 75, 101, 121, 73, 100>>
\* 'SignatureVersion'
T_SignatureVersion == <<83, 105, 103, 110, 97, 116, 117, 114, 101, 86, 101, 114, 115, 105, 111, 110>>
\* '1.0'
T_SignatureVersion_1_0 == <<49, 46, 48>>
\* 'SignatureMethod'
T_SignatureMethod == <<83, 105, 103, 110, 97, 116, 117, 114, 101, 77, 101, 116, 104, 111, 100>>
\* 'HMAC-SHA1'
T_HMAC_SHA1 == <<72, 77, 65, 67, 45, 83, 72, 65, 49>>
\* 'SignatureNonce'
T_SignatureNonce == <<83, 105, 103, 110, 97, 116, 117, 114, 101, 78, 111, 110, 99, 101>>
\* 'TimeStamp'
T_TimeStamp == <<84, 105, 109, 101, 83, 116, 97, 109, 112>>
\* 'RegionId'
T_RegionId == <<82, 101, 103, 105, 111, 110, 73, 100>>
\* 'DomainName'
T_DomainName == <<68, 111, 109, 97, 105, 110, 78, 97, 109, 101>>
\* 'Signature'
T_Signature == <<83, 105, 103, 110, 97, 116, 117, 114, 101>>
\* 'PageSize'
T_PageSize == <<80, 97, 103, 101, 83, 105, 122, 101>>
\* 'PageNumber'
T_PageNumber == <<80, 97, 103, 101, 78, 117, 109, 98, 101, 114>>
\* 'Action'
T_Action == <<65, 99, 116, 105, 111, 110>>

-----------------------------------------------------------------------------
(* urllib.urlencode, time.strftime and uuid.uuid4 as _build_request calls them *)

\* str(v): [raised, v]
ToStr(val) ==
    IF val.type = "str" THEN [raised |-> None, v |-> val.v]
    ELSE IF val.type = "int" THEN [raised |-> None, v |-> Decimal(val.v)]
    ELSE IF \A k \in 1..Len(val.v) : val.v[k] < 128
         THEN [raised |-> None, v |-> val.v]
    ELSE [raised |-> "UnicodeEncodeError", v |-> <<>>]

\* urllib.quote_plus(s): quote with safe='', a space becomes '+'
quote_plus(bytes) ==
    LET q == quote(bytes, {32})
    IN [k \in 1..Len(q) |-> IF q[k] = 32 THEN 43 ELSE q[k]]

\* urllib.urlencode(query): quote_plus(str(k)) + '=' + quote_plus(str(v)),
\* joined with '&' in the dict's iteration order; [raised, v]
urlencode(query) ==
    LET vals == [k \in 1..Len(query) |-> ToStr(query[k][2])]
    IN IF \E k \in 1..Len(vals) : vals[k].raised # None
       THEN [raised |-> "UnicodeEncodeError", v |-> <<>>]
       ELSE [raised |-> None,
             v |-> JoinWith(<<38>>,
                     [k \in 1..Len(query) |->
                        quote_plus(query[k][1]) \o <<61>>
                            \o quote_plus(vals[k].v)])]

\* time.strftime("%Y-%m-%dT%H:%M:%SZ", time.gmtime()), t seconds (t < 60)
\* after 2015-01-09T00:00:00Z
strftime(t) ==
    <<50, 48, 49, 53, 45, 48, 49, 45, 48, 57, 84, 48, 48, 58, 48, 48, 58>>
    \o <<48 + (t \div 10), 48 + (t % 10), 90>>

\* a generator that hands out the same value every time
uuid4_reused(n) ==
    <<48, 48, 48, 48, 48, 48, 48, 48, 45, 48, 48, 48, 48, 45, 52, 48, 48, 48,
      45, 56, 48, 48, 48, 45, 48, 48, 48, 48, 48, 48, 48, 48, 48, 48, 48, 48>>

\* str(uuid.uuid4()) for the n-th uuid drawn (n < 100): uuid4 is random, and
\* drawn values are taken to differ
uuid4(n) ==
    <<48, 48, 48, 48, 48, 48, 48, 48, 45, 48, 48, 48, 48, 45, 52, 48, 48, 48,
      45, 56, 48, 48, 48, 45, 48, 48, 48, 48, 48, 48, 48, 48, 48, 48>>
    \o <<48 + (n \div 10), 48 + (n % 10)>>

-----------------------------------------------------------------------------
(* Connection._build_request *)

\* the defaults of _build_request
DefaultParameters(c, timestamp, nonce) ==
    << <<T_Format, PyStr(T_JSON)>>,
       <<T_Version, PyStr(c.version)>>,
       <<T_AccessKeyId, PyStr(c.access_key_id)>>,
       <<T_SignatureVersion, PyStr(T_SignatureVersion_1_0)>>,
       <<T_SignatureMethod, PyStr(T_HMAC_SHA1)>>,
       <<T_SignatureNonce, PyStr(nonce)>>,
       <<T_TimeStamp, PyStr(timestamp)>>,
       <<T_RegionId, PyStr(c.region_id)>> >>

\* the defaults updated with params, RegionId kept
OverlaidParameters(c, p, timestamp, nonce) ==
    DictUpdate(DefaultParameters(c, timestamp, nonce), p)

\* the caller's parameters updated with the defaults: the defaults win
DefaultsOverCaller(c, p, timestamp, nonce) ==
    DictUpdate(p, DefaultParameters(c, timestamp, nonce))

\* the parameters _build_request signs: the defaults, updated with params,
\* without RegionId when DomainName is among them
MergedParameters(c, p, timestamp, nonce) ==
    LET merged == DictUpdate(DefaultParameters(c, timestamp, nonce), p)
    IN IF T_DomainName \in DictKeys(merged)
       THEN DictPop(merged, T_RegionId)
       ELSE merged

\* the end of _build_request: the signature joins the parameters, which
\* are urlencoded onto the service URL
SignedRequest(c, merged, sig) ==
    IF sig.raised # None
    THEN [raised |-> sig.raised, parameters |-> merged, url |-> <<>>]
    ELSE CHOOSE r \in
            {[raised |-> query.raised, parameters |-> final,
              url |-> c.service \o <<47, 63>> \o query.v] :
               final \in {DictSet(merged, T_Signature, PyStr(sig.v))},
               query \in {urlencode(f) :
                            f \in {DictSet(merged, T_Signature, PyStr(sig.v))}}}
            : TRUE

\* Connection._build_request(params, encoding) at time t with the n-th uuid:
\* [raised, parameters, url]
_build_request(c, p, t, n, enc, stdin_enc) ==
    CHOOSE r \in
        {SignedRequest(c, merged,
                       _compute_signature(c.secret_access_key, merged, enc, stdin_enc)) :
           merged \in {MergedParameters(c, p, strftime(t), uuid4(n))}}
        : TRUE

-----------------------------------------------------------------------------
(* find_credentials *)

PyNone == [type |-> "NoneType", v |-> <<>>]

\* x is None
IsNone(x) == x.type = "NoneType"

\* os.getenv(name, default)
getenv(env, name, default) == IF IsNone(env[name]) THEN default ELSE env[name]

\* os.path.join(a, b) for a relative b
path_join(a, b) ==
    IF a = <<>> \/ a[Len(a)] = 47 THEN a \o b ELSE a \o <<47>> \o b

\* '/root/'
T_root == <<47, 114, 111, 111, 116, 47>>
\* '.aliyun.cfg'
T_aliyun_cfg == <<46, 97, 108, 105, 121, 117, 110, 46, 99, 102, 103>>
\* '/etc/aliyun.cfg'
T_etc_aliyun_cfg == <<47, 101, 116, 99, 47, 97, 108, 105, 121, 117, 110, 46, 99, 102, 103>>

\* a read that turns to the system-wide file when the file at path has no
\* [default] section
ConfigReadFallsBack(fs, path) ==
    IF path \in DOMAIN fs /\ fs[path].exists
           /\ "default" \in {fs[path].sections[k][1] : k \in 1..Len(fs[path].sections)}
    THEN fs[path].sections
    ELSE IF T_etc_aliyun_cfg \in DOMAIN fs /\ fs[T_etc_aliyun_cfg].exists
         THEN fs[T_etc_aliyun_cfg].sections
         ELSE <<>>

\* the sections ConfigParser.read(path) parses: none when the file is missing
ConfigRead(fs, path) ==
    IF path \in DOMAIN fs /\ fs[path].exists THEN fs[path].sections ELSE <<>>

has_section(cp, section) == section \in DictKeys(cp)

has_option(cp, section, option) ==
    has_section(cp, section) /\ option \in DictKeys(DictGet(cp, section))

Getenv(name) == [op |-> "getenv", arg |-> name]
Exists(path) == [op |-> "exists", arg |-> path]
Read(path) == [op |-> "read", arg |-> path]

Credentials(id, key) ==
    [raised |-> None, access_key_id |-> id, secret_access_key |-> key]

Raise(exception) ==
    [raised |-> exception, access_key_id |-> PyNone, secret_access_key |-> PyNone]

\* access_key_id is not None or secret_access_key is not None
EnvEither(access_key_id, secret_access_key) ==
    ~IsNone(access_key_id) \/ ~IsNone(secret_access_key)

\* no value counts as set
EnvNeither(access_key_id, secret_access_key) == FALSE

\* access_key_id is not None and secret_access_key is not None
EnvComplete(access_key_id, secret_access_key) ==
    ~IsNone(access_key_id) /\ ~IsNone(secret_access_key)

\* find_credentials(): [lookups, creds], the accesses it makes and its outcome
find_credentials(env, fs) ==
    LET access_key_id == getenv(env, "ALI_ACCESS_KEY_ID", PyNone)
        secret_access_key == getenv(env, "ALI_SECRET_ACCESS_KEY", PyNone)
        env_lookups == <<Getenv("ALI_ACCESS_KEY_ID"), Getenv("ALI_SECRET_ACCESS_KEY")>>
    IN IF EnvComplete(access_key_id, secret_access_key)
       THEN [lookups |-> env_lookups,
             creds |-> Credentials(access_key_id, secret_access_key)]
       ELSE LET cfg_path == path_join(getenv(env, "HOME", PyStr(T_root)).v,
                                      T_aliyun_cfg)
                exists == cfg_path \in DOMAIN fs /\ fs[cfg_path].exists
                read_path == IF exists THEN cfg_path ELSE T_etc_aliyun_cfg
                cp == ConfigRead(fs, read_path)
                file_lookups == env_lookups
                    \o <<Getenv("HOME"), Exists(cfg_path), Read(read_path)>>
            IN IF has_section(cp, "default")
                    /\ has_option(cp, "default", "access_key_id")
               THEN IF has_option(cp, "default", "secret_access_key")
                    THEN [lookups |-> file_lookups,
                          creds |-> Credentials(
                              DictGet(DictGet(cp, "default"), "access_key_id"),
                              DictGet(DictGet(cp, "default"), "secret_access_key"))]
                    ELSE [lookups |-> file_lookups,
                          creds |-> Raise("NoOptionError")]
               ELSE [lookups |-> file_lookups, creds |-> Raise("Error")]

-----------------------------------------------------------------------------
(* Connection.__init__ *)

\* 'https://ecs.aliyuncs.com'
T_ecs_url == <<104, 116, 116, 112, 115, 58, 47, 47, 101, 99, 115, 46, 97, 108, 105, 121, 117, 110, 99, 115, 46, 99, 111, 109>>
\* 'https://slb.aliyuncs.com'
T_slb_url == <<104, 116, 116, 112, 115, 58, 47, 47, 115, 108, 98, 46, 97, 108, 105, 121, 117, 110, 99, 115, 46, 99, 111, 109>>
\* 'https://dns.aliyuncs.com'
T_dns_url == <<104, 116, 116, 112, 115, 58, 47, 47, 100, 110, 115, 46, 97, 108, 105, 121, 117, 110, 99, 115, 46, 99, 111, 109>>
\* '2014-05-26'
T_ecs_version == <<50, 48, 49, 52, 45, 48, 53, 45, 50, 54>>
\* '2014-05-15'
T_slb_version == <<50, 48, 49, 52, 45, 48, 53, 45, 49, 53>>
\* '2015-01-09'
T_dns_version == <<50, 48, 49, 53, 45, 48, 49, 45, 48, 57>>

\* Connection(region_id, service, access_key_id, secret_access_key), built
\* in the environment env with the files fs: the object's fields, or what
\* the constructor raised
Connection(region_id, service, access_key_id, secret_access_key, env, fs) ==
    LET failed(exception) ==
            [raised |-> exception, region_id |-> <<>>, service |-> <<>>,
             version |-> <<>>, access_key_id |-> <<>>, secret_access_key |-> <<>>]
        found == find_credentials(env, fs).creds
        made(url, version) ==
            IF IsNone(access_key_id) \/ IsNone(secret_access_key)
            THEN IF found.raised # None THEN failed(found.raised)
                 ELSE [raised |-> None, region_id |-> region_id, service |-> url,
                       version |-> version,
                       access_key_id |-> found.access_key_id.v,
                       secret_access_key |-> found.secret_access_key.v]
            ELSE [raised |-> None, region_id |-> region_id, service |-> url,
                  version |-> version, access_key_id |-> access_key_id.v,
                  secret_access_key |-> secret_access_key.v]
    IN IF region_id = <<>> THEN failed("Error")
       ELSE IF service = "" THEN failed("Error")
       ELSE IF service = "ecs" THEN made(T_ecs_url, T_ecs_version)
       ELSE IF service = "slb" THEN made(T_slb_url, T_slb_version)
       ELSE IF service = "dns" THEN made(T_dns_url, T_dns_version)
       ELSE failed("NotImplementedError")

-----------------------------------------------------------------------------
(* Connection.get, _perform_paginated_queries, _get_remaining_pages, _get *)

PAGE_SIZE == 50

\* the page count without the partly filled last page
full_remaining_pages(total_count) ==
    IF total_count <= PAGE_SIZE THEN 0
    ELSE (total_count - PAGE_SIZE) \div PAGE_SIZE

\* Connection._get_remaining_pages(total_count)
_get_remaining_pages(total_count) ==
    IF total_count <= PAGE_SIZE THEN 0
    ELSE LET pages == (total_count - PAGE_SIZE) \div PAGE_SIZE
         IN IF ((total_count - PAGE_SIZE) % PAGE_SIZE) > 0
            THEN pages + 1 ELSE pages

Returned(value) == [kind |-> "returned", v |-> value]
Raised(exception, args) == [kind |-> "raised", v |-> [type |-> exception, args |-> args]]
NoResult == [kind |-> "none", v |-> 0]

\* the parsed JSON of a successful response: the server's TotalCount, and
\* which request of the call it answers
Response(total_count, k) == [TotalCount |-> total_count, RequestId |-> k]

\* self.get(p) up to urllib2.urlopen: the request is built and sent, the
\* call then waits at `at` for the response; log holds the call's requests
\* so far; enc is the encoding argument of get.  A second passes with
\* every request.
SendRequest(p, enc, at, log) ==
    \E built \in {_build_request(conn, p, clock, nonces, enc, stdin_encoding)} :
        /\ nonces' = nonces + 1
        /\ clock' = clock + 1
        /\ parameters' = built.parameters
        /\ IF built.raised # None
           THEN /\ result' = Raised(built.raised, <<>>)
                /\ pc' = "done"
                /\ requests' = log
           ELSE /\ result' = NoResult
                /\ pc' = at
                /\ requests' = Append(log, [parameters |-> built.parameters,
                                            url |-> built.url])

\* the caller calls conn.get(params, paginated=pag, encoding=encoding); the
\* paginated path passes no encoding on
Get(pag) ==
    /\ pc = "idle"
    /\ paginated' = pag
    /\ responses' = <<>>
    /\ served' = <<>>
    /\ remaining_pages' = 0
    /\ i' = 0
    /\ LET p == IF pag
                THEN DictSet(params, T_PageSize, PyStr(Decimal(PAGE_SIZE)))
                ELSE params
       IN /\ params' = p
          /\ SendRequest(p, IF pag THEN None ELSE encoding,
                         IF pag THEN "first_page" ELSE "single", <<>>)
    /\ UNCHANGED <<conn, sign_vars, cred_vars, init_vars, api_vars>>

\* a loop that asks for page idx, not idx + 1
PageLoopFromOne(rs, rem, idx) ==
    /\ responses' = rs
    /\ remaining_pages' = rem
    /\ i' = idx
    /\ IF idx <= rem
       THEN LET p == DictSet(params, T_PageNumber, PyStr(Decimal(idx)))
            IN /\ params' = p
               /\ SendRequest(p, None, "next_page", requests)
       ELSE /\ result' = Returned(rs)
            /\ pc' = "done"
            /\ UNCHANGED <<params, parameters, requests, nonces, clock>>

\* the while loop of _perform_paginated_queries with responses = rs,
\* remaining_pages = rem and i = idx: the next page is requested, or the
\* list is returned
PageLoop(rs, rem, idx) ==
    /\ responses' = rs
    /\ remaining_pages' = rem
    /\ i' = idx
    /\ IF idx <= rem
       THEN LET p == DictSet(params, T_PageNumber, PyStr(Decimal(idx + 1)))
            IN /\ params' = p
               /\ SendRequest(p, None, "next_page", requests)
       ELSE /\ result' = Returned(rs)
            /\ pc' = "done"
            /\ UNCHANGED <<params, parameters, requests, nonces, clock>>

\* conn.headers['content-type'].split('charset=')[-1]
Charset(content_type) ==
    IF content_type = "application/json; charset=utf-8" THEN "utf-8"
    ELSE content_type

\* the encodings unicode(response, encoding) knows
Codecs == {"utf-8", "utf8", "ascii"}

\* what the server answers to a request
Answer(status, body, total_count, content_type) ==
    [status |-> status, body |-> body, TotalCount |-> total_count,
     content_type |-> content_type]

\* urlopen succeeds: the server's JSON body reports total_count, under the
\* content-type header content_type
ResponseOk(total_count, content_type) ==
    /\ pc \in {"single", "first_page", "next_page"}
    /\ served' = Append(served, Answer("ok", <<>>, total_count, content_type))
    /\ LET resp == Response(total_count, Len(requests))
       IN IF Charset(content_type) \notin Codecs
          THEN /\ result' = Raised("LookupError", <<>>)
               /\ pc' = "done"
               /\ UNCHANGED <<params, parameters, requests, responses,
                              remaining_pages, i, nonces, clock>>
          ELSE IF pc = "single"
          THEN /\ result' = Returned(resp)
               /\ pc' = "done"
               /\ UNCHANGED <<params, parameters, requests, responses,
                              remaining_pages, i, nonces, clock>>
          ELSE IF pc = "first_page" /\ total_count = 0
          THEN /\ result' = Returned(<<resp>>)
               /\ pc' = "done"
               /\ UNCHANGED <<params, parameters, requests, responses,
                              remaining_pages, i, nonces, clock>>
          ELSE IF pc = "first_page"
          THEN PageLoop(<<resp>>, _get_remaining_pages(total_count), 1)
          ELSE PageLoop(Append(responses, resp), remaining_pages, i + 1)
    /\ UNCHANGED <<conn, paginated, sign_vars, cred_vars, init_vars, api_vars>>

\* an Error that drops the body
BareErrorResult(body) == Raised("Error", <<>>)

\* except urllib2.HTTPError as e: raise Error(e.read())
HttpErrorResult(body) == Raised("Error", body)

\* urlopen raises HTTPError: the server answered with a non-success status
\* and the given body
ResponseHttpError(body) ==
    /\ pc \in {"single", "first_page", "next_page"}
    /\ served' = Append(served, Answer("http_error", body, 0, ""))
    /\ result' = HttpErrorResult(body)
    /\ pc' = "done"
    /\ UNCHANGED <<conn, params, paginated, parameters, requests, responses,
                   remaining_pages, i, clock, nonces, sign_vars, cred_vars, init_vars, api_vars>>

\* a transport that sends the request again when the server could not be
\* reached
ResponseUrlErrorRetried ==
    /\ pc \in {"single", "first_page", "next_page"}
    /\ served' = Append(served, Answer("unreachable", <<>>, 0, ""))
    /\ requests' = Append(requests, requests[Len(requests)])
    /\ UNCHANGED <<conn, params, paginated, pc, parameters, responses, result,
                   remaining_pages, i, clock, nonces, sign_vars, cred_vars, init_vars, api_vars>>

\* urlopen raises URLError, which _get does not catch: the server could not
\* be reached
ResponseUrlError ==
    /\ pc \in {"single", "first_page", "next_page"}
    /\ served' = Append(served, Answer("unreachable", <<>>, 0, ""))
    /\ result' = Raised("URLError", <<>>)
    /\ pc' = "done"
    /\ UNCHANGED <<conn, params, paginated, parameters, requests, responses,
                   remaining_pages, i, clock, nonces, sign_vars, cred_vars, init_vars, api_vars>>

-----------------------------------------------------------------------------
(* The connection in use: one get call on a constructed Connection *)

\* 'cn-hangzhou'
T_cn_hangzhou == <<99, 110, 45, 104, 97, 110, 103, 122, 104, 111, 117>>
\* 'cn-beijing'
T_cn_beijing == <<99, 110, 45, 98, 101, 105, 106, 105, 110, 103>>
\* 'DescribeInstances'
T_DescribeInstances == <<68, 101, 115, 99, 114, 105, 98, 101, 73, 110, 115, 116, 97, 110, 99, 101, 115>>
\* 'example.com'
T_example_com == <<101, 120, 97, 109, 112, 108, 101, 46, 99, 111, 109>>
\* 'InstanceName'
T_InstanceName == <<73, 110, 115, 116, 97, 110, 99, 101, 78, 97, 109, 101>>
\* 'my ~vm*'
T_my_vm == <<109, 121, 32, 126, 118, 109, 42>>
\* '10'
T_10 == <<49, 48>>
\* 'n-1'
T_n_1 == <<110, 45, 49>>
\* 'forged'
T_forged == <<102, 111, 114, 103, 101, 100>>
\* 'key_id'
T_key_id == <<107, 101, 121, 95, 105, 100>>
\* 'some_secret_access_key'
T_some_secret_access_key == <<115, 111, 109, 101, 95, 115, 101, 99, 114, 101, 116, 95, 97, 99, 99, 101, 115, 115, 95, 107, 101, 121>>
\* '{"Code": "InvalidParameter"}'
T_InvalidParameter == <<123, 34, 67, 111, 100, 101, 34, 58, 32, 34, 73, 110, 118, 97, 108, 105, 100, 80, 97, 114, 97, 109, 101, 116, 101, 114, 34, 125>>
\* 'Service Unavailable'
T_ServiceUnavailable == <<83, 101, 114, 118, 105, 99, 101, 32, 85, 110, 97, 118, 97, 105, 108, 97, 98, 108, 101>>

\* the parameter dicts callers hand to get
CallerParams ==
    {<<<<T_Action, PyStr(T_DescribeInstances)>>>>,
     <<<<T_Action, PyStr(T_DescribeInstances)>>,
       <<T_DomainName, PyStr(T_example_com)>>>>,
     <<<<T_Action, PyStr(T_DescribeInstances)>>,
       <<T_RegionId, PyStr(T_cn_beijing)>>>>,
     <<<<T_DomainName, PyStr(T_example_com)>>,
       <<T_RegionId, PyStr(T_cn_beijing)>>>>,
     <<<<T_Action, PyStr(T_DescribeInstances)>>,
       <<T_Signature, PyStr(T_forged)>>>>,
     <<<<T_Action, PyStr(T_DescribeInstances)>>,
       <<T_PageSize, PyStr(T_10)>>>>,
     <<<<T_Action, PyStr(T_DescribeInstances)>>,
       <<T_InstanceName, PyStr(T_my_vm)>>>>,
     <<<<T_Action, PyStr(T_DescribeInstances)>>,
       <<T_SignatureNonce, PyStr(T_n_1)>>>>}

\* the services connections are made to
Services == {"ecs", "dns"}

\* the TotalCount values a server reports: around every page boundary
TotalCounts ==
    {0, 1} \cup {k * PAGE_SIZE : k \in 1..(MaxPages - 1)}
           \cup {k * PAGE_SIZE + 1 : k \in 1..(MaxPages - 1)}

\* the content-type headers a server sends
ContentTypes == {"application/json; charset=utf-8", "application/json"}

\* the bodies a server sends with a non-success status
ErrorBodies == {T_InvalidParameter, T_ServiceUnavailable, <<>>}

NoEnviron ==
    [name \in {"ALI_ACCESS_KEY_ID", "ALI_SECRET_ACCESS_KEY", "HOME"} |-> PyNone]

NoFiles == <<>>

SignerIdle ==
    /\ spc = "off"
    /\ request = PyNone
    /\ encoded = NoResult
    /\ sign_items = <<>>
    /\ secret = <<>>
    /\ signature = NoResult
    /\ first_signature = NoResult

CredentialsIdle ==
    /\ cpc = "off"
    /\ environ = NoEnviron
    /\ files = NoFiles
    /\ lookups = <<>>
    /\ creds = Raise(None)

\* no constructor call is modelled
InitIdle ==
    /\ ipc = "off"
    /\ init_args = <<>>

\* no method call is modelled
ApiIdle ==
    /\ apc = "off"
    /\ call = <<>>
    /\ gets = <<>>
    /\ answers = <<>>
    /\ local = <<>>
    /\ returned = NoResult

GetIdle ==
    /\ pc = "off"
    /\ conn = Connection(T_cn_hangzhou, "ecs", PyStr(T_key_id),
                         PyStr(T_some_secret_access_key), NoEnviron, NoFiles)
    /\ params = <<>>
    /\ paginated = FALSE
    /\ parameters = <<>>
    /\ requests = <<>>
    /\ served = <<>>
    /\ responses = <<>>
    /\ remaining_pages = 0
    /\ i = 0
    /\ result = NoResult
    /\ clock = 0
    /\ nonces = 0

\* a Connection constructed with explicit credentials, and a caller about
\* to call get on it
Init ==
    /\ conn \in {Connection(T_cn_hangzhou, service, PyStr(T_key_id),
                            PyStr(T_some_secret_access_key), NoEnviron, NoFiles)
                 : service \in Services}
    /\ params \in CallerParams
    /\ paginated = FALSE
    /\ pc = "idle"
    /\ parameters = <<>>
    /\ requests = <<>>
    /\ served = <<>>
    /\ responses = <<>>
    /\ remaining_pages = 0
    /\ i = 0
    /\ result = NoResult
    /\ clock = 0
    /\ nonces = 0
    /\ encoding = None
    /\ stdin_encoding = None
    /\ SignerIdle
    /\ CredentialsIdle
    /\ InitIdle
    /\ ApiIdle

\* later pages report the TotalCount of the first page, or an emptied
\* collection
ReportedCounts ==
    IF pc = "next_page" THEN {0, responses[1].TotalCount} ELSE TotalCounts

Next ==
    \/ \E pag \in BOOLEAN : Get(pag)
    \/ \E total_count \in ReportedCounts, content_type \in ContentTypes :
           ResponseOk(total_count, content_type)
    \/ \E body \in ErrorBodies : ResponseHttpError(body)
    \/ ResponseUrlError

Spec == Init /\ [][Next]_vars

-----------------------------------------------------------------------------
(* Properties of one get call, checked under Spec *)

Max(a, b) == IF a > b THEN a ELSE b

\* max(1, ceil(T / 50))
PageCount(T) == Max(1, (T + 49) \div 50)

\* the PageNumber a request asks for: 1 when it carries none
PageOf(req) ==
    IF T_PageNumber \in DictKeys(req.parameters)
    THEN DictGet(req.parameters, T_PageNumber).v
    ELSE <<49>>

\* C1: a paginated get whose first response reports TotalCount T issues
\* exactly max(1, ceil(T/50)) requests and returns a list of exactly that
\* many responses, whatever TotalCount the later pages report; while it
\* runs it has never issued more requests than that.
C1_PageCountLaw ==
    /\ (paginated /\ result.kind = "returned") =>
          /\ Len(requests) = PageCount(served[1].TotalCount)
          /\ Len(result.v) = PageCount(served[1].TotalCount)
    /\ (paginated /\ served # <<>> /\ served[1].status = "ok") =>
          Len(requests) <= PageCount(served[1].TotalCount)

\* a paginated get returned three pages for TotalCount 101 although the
\* second page reported an emptied collection
C1_Witness ==
    /\ paginated
    /\ result.kind = "returned"
    /\ served[1].TotalCount = 101
    /\ Len(result.v) = 3
    /\ served[2].TotalCount = 0

\* C2: every request of a get call is attempted once: a non-paginated get
\* issues one request, no page is requested twice, and every request but
\* the one in flight has exactly one answer.  A failed request is the last
\* one the call issues: the call is over and has raised, it returns no list.
C2_NoRetryFailFast ==
    /\ Len(requests) \in {Len(served), Len(served) + 1}
    /\ ~paginated => Len(requests) <= 1
    /\ \A j, k \in 1..Len(requests) :
          j # k => PageOf(requests[j]) # PageOf(requests[k])
    /\ \A k \in 1..Len(served) :
          served[k].status # "ok" =>
             /\ k = Len(served)
             /\ Len(requests) = k
             /\ pc = "done"
             /\ result.kind = "raised"

\* the second page of a paginated get of three pages failed: two requests
\* were issued and the call raised
C2_Witness ==
    /\ paginated
    /\ Len(served) = 2
    /\ served[1].TotalCount = 101
    /\ served[2].status = "unreachable"
    /\ Len(requests) = 2
    /\ result.kind = "raised"

\* C3: when the server answers a request with a non-success status, get
\* raises Error carrying exactly the body the server sent; nothing is
\* returned.
C3_HttpErrorBodyVerbatim ==
    \A k \in 1..Len(served) :
        served[k].status = "http_error" =>
            /\ result.kind = "raised"
            /\ result.v.type = "Error"
            /\ result.v.args = served[k].body

\* the server rejected the second page with a body, which the call raised
C3_Witness ==
    /\ Len(served) = 2
    /\ served[2].status = "http_error"
    /\ served[2].body = T_InvalidParameter
    /\ result = Raised("Error", T_InvalidParameter)

\* C4: the final parameters of every built request hold no RegionId when
\* the caller's mapping holds DomainName, and hold RegionId when it does
\* not.
C4_DnsRegionStripping ==
    \A k \in 1..Len(requests) :
        (T_DomainName \in DictKeys(params))
            <=> (T_RegionId \notin DictKeys(requests[k].parameters))

\* a request was built for a caller who supplied DomainName and RegionId
C4_Witness ==
    /\ requests # <<>>
    /\ T_DomainName \in DictKeys(params)
    /\ T_RegionId \in DictKeys(params)
    /\ T_RegionId \notin DictKeys(requests[1].parameters)

\* sign(secret, P) for the final parameters without their Signature entry
SignatureOver(final) ==
    _compute_signature(conn.secret_access_key, DictPop(final, T_Signature),
                      None, None).v

\* C5: the Signature of the request in flight is sign(secret, P), P being
\* its final parameters without the Signature entry.
C5_SignatureCoversFinalSet ==
    pc \in {"single", "first_page", "next_page"} =>
        DictGet(parameters, T_Signature) = PyStr(SignatureOver(parameters))

-----------------------------------------------------------------------------
(* The signer applied to drawn inputs: _percent_encode to one value,      *)
(* _compute_signature to one dict and to the same dict iterated in other   *)
(* orders                                                                  *)

\* 'abc'
T_abc == <<97, 98, 99>>
\* 'def'
T_def == <<100, 101, 102>>
\* '\xc3\xa4'
T_a_umlaut == <<195, 164>>
\* 'str type'
T_str_type == <<115, 116, 114, 32, 116, 121, 112, 101>>
\* '*+ ~'
T_star_plus_space_tilde == <<42, 43, 32, 126>>
\* '~%7E'
T_tilde_escaped == <<126, 37, 55, 69>>
\* 'another_secret'
T_another_secret == <<97, 110, 111, 116, 104, 101, 114, 95, 115, 101, 99, 114, 101, 116>>

\* the parameters of testSignature
FixtureItems ==
    <<<<T_abc, PyStr(T_def)>>,
      <<T_a_umlaut, PyStr(T_str_type)>>,
      <<T_star_plus_space_tilde, PyStr(T_star_plus_space_tilde)>>>>

\* the dicts of at most MaxParams of these parameters, in this order
SignInputs ==
    {SelectSeq(FixtureItems, LAMBDA it : it \in chosen) :
        chosen \in {c \in SUBSET Range(FixtureItems) :
                       c # {} /\ Cardinality(c) <= MaxParams}}

Secrets == {T_some_secret_access_key, T_another_secret}

\* the code points texts are drawn from: A z 0 - _ . ~ space * + % / and
\* a-umlaut, the euro sign, an emoji
TextAlphabet ==
    {65, 122, 48, 45, 95, 46, 126, 32, 42, 43, 37, 47, 228, 8364, 128512}

Texts == UNION {[1..n -> TextAlphabet] : n \in 0..MaxTextLen}

\* the values handed to _percent_encode: unicode texts, the same texts as
\* UTF-8 str, a str that is not UTF-8, the values of testPercentEncode
EncodeInputs ==
    {PyUnicode(cps) : cps \in Texts}
        \cup {PyStr(Utf8Encode(cps)) : cps \in Texts}
        \cup {PyStr(<<195>>), PyStr(T_tilde_escaped),
              PyUnicode(T_star_plus_space_tilde)}
        \cup {PyInt(n) : n \in {0, 7, 42, 1234}}

Encodings == {None, "utf8"}

InitSign ==
    /\ GetIdle
    /\ CredentialsIdle
    /\ InitIdle
    /\ ApiIdle
    /\ spc = "ready"
    /\ encoding \in Encodings
    /\ stdin_encoding \in Encodings
    /\ encoded = NoResult
    /\ signature = NoResult
    /\ first_signature = NoResult
    /\ \/ /\ request \in EncodeInputs
          /\ sign_items = <<>>
          /\ secret = <<>>
       \/ /\ request = PyNone
          /\ sign_items \in SignInputs
          /\ secret \in Secrets
          /\ stdin_encoding = None

\* c._percent_encode(request, encoding)
PercentEncode ==
    /\ spc = "ready"
    /\ ~IsNone(request)
    /\ spc' = "encoded"
    /\ encoded' = _percent_encode(request, encoding, stdin_encoding)
    /\ UNCHANGED <<request, encoding, stdin_encoding, sign_items, secret,
                   signature, first_signature, get_vars, cred_vars, init_vars, api_vars>>

\* c._compute_signature(parameters, encoding), c.secret_access_key = secret
ComputeSignature ==
    /\ spc = "ready"
    /\ sign_items # <<>>
    /\ spc' = "signed"
    /\ \E sig \in {_compute_signature(secret, sign_items, encoding, stdin_encoding)} :
          /\ signature' = sig
          /\ first_signature' = sig
    /\ UNCHANGED <<request, encoding, stdin_encoding, encoded, sign_items,
                   secret, get_vars, cred_vars, init_vars, api_vars>>

\* the same call on a dict of the same pairs whose iteration order has the
\* k-th and the next pair exchanged
ComputeSignatureReordered(k) ==
    /\ spc = "signed"
    /\ k \in 1..(Len(sign_items) - 1)
    /\ \E items \in {[sign_items EXCEPT ![k] = sign_items[k + 1],
                                        ![k + 1] = sign_items[k]]} :
          /\ sign_items' = items
          /\ signature' = _compute_signature(secret, items, encoding, stdin_encoding)
    /\ UNCHANGED <<spc, request, encoding, stdin_encoding, encoded, secret,
                   first_signature, get_vars, cred_vars, init_vars, api_vars>>

NextSign ==
    \/ PercentEncode
    \/ ComputeSignature
    \/ \E k \in 1..(MaxParams - 1) : ComputeSignatureReordered(k)

SpecSign == InitSign /\ [][NextSign]_vars

-----------------------------------------------------------------------------
(* Properties of the signer, checked under SpecSign *)

\* C6: the signature of a dict does not depend on the order in which its
\* pairs are iterated: signing the same pairs in any other order gives the
\* signature of the first order.
C6_SignatureOrderIndependent ==
    spc = "signed" => signature = first_signature

\* the three parameters were signed in the reverse of their first order
C6_Witness ==
    /\ spc = "signed"
    /\ Len(sign_items) = 3
    /\ sign_items[1][1] = T_star_plus_space_tilde
    /\ sign_items[2][1] = T_a_umlaut
    /\ sign_items[3][1] = T_abc
    /\ signature.raised = None

\* 'Esu7vZK6JBsujsaQXT1AHKR5Ols='
T_fixture_signature == <<69, 115, 117, 55, 118, 90, 75, 54, 74, 66, 115, 117, 106, 115, 97, 81, 88, 84, 49, 65, 72, 75, 82, 53, 79, 108, 115, 61>>

\* 'GET&%2F&' and the percent-encoded canonical query string of the fixture
T_fixture_string_to_sign == <<71, 69, 84, 38, 37, 50, 70, 38, 37, 50, 53, 50, 65, 37, 50, 53, 50, 66, 37, 50, 53, 50, 48, 126, 37, 51, 68, 37, 50, 53, 50, 65, 37, 50, 53, 50, 66, 37, 50, 53, 50, 48, 126, 37, 50, 54, 97, 98, 99, 37, 51, 68, 100, 101, 102, 37, 50, 54, 37, 50, 53, 67, 51, 37, 50, 53, 65, 52, 37, 51, 68, 115, 116, 114, 37, 50, 53, 50, 48, 116, 121, 112, 101>>

\* C7: for the secret 'some_secret_access_key' and the parameters of
\* testSignature, in UTF-8, the signature is the base64 of the HMAC-SHA1,
\* keyed with the secret and '&', of 'GET&%2F&' followed by the
\* percent-encoded canonical query string, and it is
\* 'Esu7vZK6JBsujsaQXT1AHKR5Ols='.
C7_SignatureExactness ==
    (/\ spc = "signed"
     /\ secret = T_some_secret_access_key
     /\ Range(sign_items) = Range(FixtureItems)
     /\ encoding = "utf8") =>
        /\ signature.raised = None
        /\ signature.v = T_fixture_signature
        /\ signature.v = b64encode(HmacSha1(T_some_secret_access_key \o <<38>>,
                                            T_fixture_string_to_sign))

\* the fixture was signed, its pairs iterated in an order that is not sorted
C7_Witness ==
    /\ spc = "signed"
    /\ secret = T_some_secret_access_key
    /\ encoding = "utf8"
    /\ sign_items = <<FixtureItems[2], FixtureItems[1], FixtureItems[3]>>
    /\ signature.v = T_fixture_signature

\* the characters the encoding leaves unchanged: A-Z a-z 0-9 - _ . ~
Unreserved ==
    (65..90) \cup (97..122) \cup (48..57) \cup {45, 95, 46, 126}

\* '0123456789ABCDEF'
UpperHex == <<48, 49, 50, 51, 52, 53, 54, 55, 56, 57, 65, 66, 67, 68, 69, 70>>

\* the text a byte is encoded to: itself if unreserved, else %XX
EscapedByte(b) ==
    IF b \in Unreserved THEN <<b>>
    ELSE <<37, UpperHex[(b \div 16) + 1], UpperHex[(b % 16) + 1]>>

\* every byte of bytes, escaped
EscapedBytes(bytes) == Join([k \in 1..Len(bytes) |-> EscapedByte(bytes[k])])

\* the UTF-8 encoding of the characters of TextAlphabet, from the standard
Utf8Of(c) ==
    IF c = 228 THEN <<195, 164>>
    ELSE IF c = 8364 THEN <<226, 130, 172>>
    ELSE IF c = 128512 THEN <<240, 159, 152, 128>>
    ELSE <<c>>

\* the string form of the drawn numbers
StringFormOf(n) ==
    IF n = 0 THEN <<48>>
    ELSE IF n = 7 THEN <<55>>
    ELSE IF n = 42 THEN <<52, 50>>
    ELSE IF n = 1234 THEN <<49, 50, 51, 52>>
    ELSE <<>>

\* the str is text in the encoding in effect
IsTextIn(bytes, codec) ==
    IF codec = "ascii" THEN \A k \in 1..Len(bytes) : bytes[k] < 128
    ELSE Utf8Valid(bytes)

\* what the claim expects _percent_encode to return for the request
ExpectedEncoding ==
    IF request.type = "unicode"
    THEN EscapedBytes(Join([k \in 1..Len(request.v) |-> Utf8Of(request.v[k])]))
    ELSE IF request.type = "int" THEN EscapedBytes(StringFormOf(request.v))
    ELSE EscapedBytes(request.v)

-----------------------------------------------------------------------------
(* find_credentials called in a drawn environment, over drawn files *)

\* '/home/u'
T_home_u == <<47, 104, 111, 109, 101, 47, 117>>
\* '/home/u/.aliyun.cfg'
T_home_u_aliyun_cfg == <<47, 104, 111, 109, 101, 47, 117, 47, 46, 97, 108, 105, 121, 117, 110, 46, 99, 102, 103>>
\* '/root/.aliyun.cfg'
T_root_aliyun_cfg == <<47, 114, 111, 111, 116, 47, 46, 97, 108, 105, 121, 117, 110, 46, 99, 102, 103>>
\* 'env_id'
T_env_id == <<101, 110, 118, 95, 105, 100>>
\* 'env_secret'
T_env_secret == <<101, 110, 118, 95, 115, 101, 99, 114, 101, 116>>
\* 'user_id'
T_user_id == <<117, 115, 101, 114, 95, 105, 100>>
\* 'user_secret'
T_user_secret == <<117, 115, 101, 114, 95, 115, 101, 99, 114, 101, 116>>
\* 'root_id'
T_root_id == <<114, 111, 111, 116, 95, 105, 100>>
\* 'root_secret'
T_root_secret == <<114, 111, 111, 116, 95, 115, 101, 99, 114, 101, 116>>
\* 'etc_id'
T_etc_id == <<101, 116, 99, 95, 105, 100>>
\* 'etc_secret'
T_etc_secret == <<101, 116, 99, 95, 115, 101, 99, 114, 101, 116>>

\* a configuration file that does not exist
NoFile == [exists |-> FALSE, sections |-> <<>>]

\* [default] with access_key_id and secret_access_key
FullFile(id, key) ==
    [exists |-> TRUE,
     sections |-> <<<<"default", <<<<"access_key_id", PyStr(id)>>,
                                   <<"secret_access_key", PyStr(key)>>>>>>>>]

\* [default] with access_key_id only
NoSecretFile(id) ==
    [exists |-> TRUE,
     sections |-> <<<<"default", <<<<"access_key_id", PyStr(id)>>>>>>>>]

\* [default] with secret_access_key only
NoIdFile(key) ==
    [exists |-> TRUE,
     sections |-> <<<<"default", <<<<"secret_access_key", PyStr(key)>>>>>>>>]

\* a file whose only section is [other]
NoSectionFile(id, key) ==
    [exists |-> TRUE,
     sections |-> <<<<"other", <<<<"access_key_id", PyStr(id)>>,
                                 <<"secret_access_key", PyStr(key)>>>>>>>>]

\* a value the environment gives a variable: unset, empty or text
EnvValues(text) == {PyNone, PyStr(<<>>), PyStr(text)}

Environments ==
    {[name \in {"ALI_ACCESS_KEY_ID", "ALI_SECRET_ACCESS_KEY", "HOME"} |->
        IF name = "ALI_ACCESS_KEY_ID" THEN id
        ELSE IF name = "ALI_SECRET_ACCESS_KEY" THEN key ELSE home] :
     id \in EnvValues(T_env_id), key \in EnvValues(T_env_secret),
     home \in {PyNone, PyStr(T_home_u)}}

FileSystems ==
    {[path \in {T_home_u_aliyun_cfg, T_root_aliyun_cfg, T_etc_aliyun_cfg} |->
        IF path = T_home_u_aliyun_cfg THEN user
        ELSE IF path = T_root_aliyun_cfg THEN root ELSE etc] :
     user \in {NoFile, FullFile(T_user_id, T_user_secret),
               NoSecretFile(T_user_id), NoIdFile(T_user_secret),
               NoSectionFile(T_user_id, T_user_secret)},
     root \in {NoFile, FullFile(T_root_id, T_root_secret)},
     etc \in {NoFile, FullFile(T_etc_id, T_etc_secret), NoSecretFile(T_etc_id)}}

InitCreds ==
    /\ GetIdle
    /\ SignerIdle
    /\ InitIdle
    /\ ApiIdle
    /\ encoding = None
    /\ stdin_encoding = None
    /\ cpc = "ready"
    /\ environ \in Environments
    /\ files \in FileSystems
    /\ lookups = <<>>
    /\ creds = Raise(None)

\* find_credentials()
FindCredentials ==
    /\ cpc = "ready"
    /\ cpc' = "done"
    /\ \E found \in {find_credentials(environ, files)} :
          /\ lookups' = found.lookups
          /\ creds' = found.creds
    /\ UNCHANGED <<environ, files, get_vars, sign_vars, init_vars, api_vars>>

NextCreds == FindCredentials

SpecCreds == InitCreds /\ [][NextCreds]_vars

-----------------------------------------------------------------------------
(* Properties of find_credentials, checked under SpecCreds *)

IsSet(name) == environ[name].type # "NoneType"

\* the paths find_credentials read
FilesRead == {lookups[k].arg : k \in {j \in 1..Len(lookups) : lookups[j].op = "read"}}

\* the option as the file at path gives it in [default]
FileOption(path, option) ==
    DictGet(DictGet(files[path].sections, "default"), option)

\* C9: when ALI_ACCESS_KEY_ID and ALI_SECRET_ACCESS_KEY are both set,
\* find_credentials returns that pair and looks up nothing else: not HOME,
\* no path, no file.
C9_EnvironmentFirst ==
    (cpc = "done" /\ IsSet("ALI_ACCESS_KEY_ID") /\ IsSet("ALI_SECRET_ACCESS_KEY")) =>
        /\ creds.raised = None
        /\ creds.access_key_id = environ["ALI_ACCESS_KEY_ID"]
        /\ creds.secret_access_key = environ["ALI_SECRET_ACCESS_KEY"]
        /\ lookups = <<Getenv("ALI_ACCESS_KEY_ID"), Getenv("ALI_SECRET_ACCESS_KEY")>>

\* both variables were set while the user's file held other credentials
C9_Witness ==
    /\ cpc = "done"
    /\ environ["ALI_ACCESS_KEY_ID"] = PyStr(T_env_id)
    /\ environ["ALI_SECRET_ACCESS_KEY"] = PyStr(T_env_secret)
    /\ environ["HOME"] = PyStr(T_home_u)
    /\ files[T_home_u_aliyun_cfg] = FullFile(T_user_id, T_user_secret)
    /\ creds = Credentials(PyStr(T_env_id), PyStr(T_env_secret))

\* C10: when exactly one of the two variables is set, find_credentials
\* goes on to the configuration file: it reads one file, succeeds when that
\* file holds both options, and what it returns is the file's pair, the
\* variable that is set being ignored.
C10_PartialEnvironmentFallsThrough ==
    (cpc = "done" /\ IsSet("ALI_ACCESS_KEY_ID") # IsSet("ALI_SECRET_ACCESS_KEY")) =>
        /\ Cardinality(FilesRead) = 1
        /\ \A path \in FilesRead :
              /\ (path \in DOMAIN files /\ files[path] \in
                     {FullFile(T_user_id, T_user_secret),
                      FullFile(T_root_id, T_root_secret),
                      FullFile(T_etc_id, T_etc_secret)})
                    => creds.raised = None
              /\ creds.raised = None =>
                    /\ creds.access_key_id = FileOption(path, "access_key_id")
                    /\ creds.secret_access_key = FileOption(path, "secret_access_key")
        /\ creds.raised = None =>
              /\ creds.access_key_id.v \notin {T_env_id, <<>>}
              /\ creds.secret_access_key.v \notin {T_env_secret, <<>>}

\* only the access key id was set, and the pair of the user's file came back
C10_Witness ==
    /\ cpc = "done"
    /\ environ["ALI_ACCESS_KEY_ID"] = PyStr(T_env_id)
    /\ environ["ALI_SECRET_ACCESS_KEY"] = PyNone
    /\ environ["HOME"] = PyStr(T_home_u)
    /\ creds = Credentials(PyStr(T_user_id), PyStr(T_user_secret))

\* the file at path gives find_credentials nothing to return: it does not
\* exist, or has no [default] section, or [default] lacks one of the options
LacksCredentials(path) ==
    \/ path \notin DOMAIN files
    \/ ~files[path].exists
    \/ "default" \notin DictKeys(files[path].sections)
    \/ "access_key_id" \notin DictKeys(DictGet(files[path].sections, "default"))
    \/ "secret_access_key" \notin DictKeys(DictGet(files[path].sections, "default"))

\* C11: when the environment does not supply both values and the file that
\* was consulted does not exist, or lacks the [default] section, or lacks
\* access_key_id, or lacks secret_access_key, find_credentials raises the
\* module's Error ('Could not find credentials.') and returns nothing.
C11_MissingCredentialsError ==
    (/\ cpc = "done"
     /\ ~(IsSet("ALI_ACCESS_KEY_ID") /\ IsSet("ALI_SECRET_ACCESS_KEY"))
     /\ \A path \in FilesRead : LacksCredentials(path)) =>
        creds = Raise("Error")

-----------------------------------------------------------------------------
(* The constructors: Connection.__init__ and the service connections that *)
(* call it, run in a drawn environment over drawn files                   *)

\* the service name the constructor of cls hands to Connection.__init__;
\* Connection itself takes it from its caller
ServiceOf(cls, service) ==
    IF cls = "EcsConnection" THEN "ecs"
    ELSE IF cls = "SlbConnection" THEN "slb"
    ELSE IF cls = "DnsConnection" THEN "dns"
    ELSE IF cls = "RdsConnection" THEN "rds"
    ELSE IF cls = "EssConnection" THEN "ess"
    ELSE service

\* find_credentials() is called whatever the service is
ResolvesCredentialsFirst(region_id, service, access_key_id, secret_access_key) ==
    IsNone(access_key_id) \/ IsNone(secret_access_key)

\* find_credentials() is called whether or not the keys were passed
ResolvesCredentialsAlways(region_id, service, access_key_id, secret_access_key) ==
    /\ region_id # <<>>
    /\ service \in {"ecs", "slb", "dns"}

\* Connection.__init__ gets as far as calling find_credentials()
ResolvesCredentials(region_id, service, access_key_id, secret_access_key) ==
    /\ region_id # <<>>
    /\ service \in {"ecs", "slb", "dns"}
    /\ (IsNone(access_key_id) \/ IsNone(secret_access_key))

\* no object yet
Unconstructed ==
    [raised |-> "Unconstructed", region_id |-> <<>>, service |-> <<>>,
     version |-> <<>>, access_key_id |-> <<>>, secret_access_key |-> <<>>]

\* cls(region_id, [service,] access_key_id, secret_access_key): on success
\* the caller holds a connection and may call get on it
Construct ==
    /\ ipc = "ready"
    /\ ipc' = "done"
    /\ \E service \in {ServiceOf(init_args.cls, init_args.service)} :
          /\ \E made \in {Connection(init_args.region_id, service,
                                     init_args.access_key_id,
                                     init_args.secret_access_key,
                                     environ, files)} :
                /\ conn' = made
                /\ pc' = IF made.raised = None THEN "idle" ELSE "off"
          /\ IF ResolvesCredentials(init_args.region_id, service,
                                    init_args.access_key_id,
                                    init_args.secret_access_key)
             THEN \E found \in {find_credentials(environ, files)} :
                     /\ lookups' = found.lookups
                     /\ creds' = found.creds
             ELSE UNCHANGED <<lookups, creds>>
    /\ UNCHANGED <<params, paginated, parameters, requests, served, responses,
                   remaining_pages, i, result, clock, nonces, cpc, environ,
                   files, init_args, sign_vars, api_vars>>

\* the classes instantiated
Classes ==
    {"Connection", "EcsConnection", "SlbConnection", "DnsConnection",
     "RdsConnection", "EssConnection"}

\* the service names handed to Connection: those of the service
\* connections, 's3' and the empty string
ServiceNames == {"ecs", "slb", "dns", "rds", "ess", "s3", ""}

\* the constructor calls made: Connection with a service name, or one of
\* the service connections; a region or none; both keys or neither
Constructions ==
    {[cls |-> cls, region_id |-> region_id, service |-> service,
      access_key_id |-> keys[1], secret_access_key |-> keys[2]] :
     cls \in {"Connection"}, service \in ServiceNames,
     region_id \in {T_cn_hangzhou, <<>>},
     keys \in {<<PyNone, PyNone>>,
               <<PyStr(T_key_id), PyStr(T_some_secret_access_key)>>}}
    \cup
    {[cls |-> cls, region_id |-> region_id, service |-> "",
      access_key_id |-> keys[1], secret_access_key |-> keys[2]] :
     cls \in Classes \ {"Connection"},
     region_id \in {T_cn_hangzhou, <<>>},
     keys \in {<<PyNone, PyNone>>,
               <<PyStr(T_key_id), PyStr(T_some_secret_access_key)>>}}

\* an environment with both variables set and no HOME, or with nothing set
ConstructEnvironments ==
    {NoEnviron,
     [NoEnviron EXCEPT !["ALI_ACCESS_KEY_ID"] = PyStr(T_env_id),
                       !["ALI_SECRET_ACCESS_KEY"] = PyStr(T_env_secret)]}

\* /root/.aliyun.cfg holding credentials, or no file at all
ConstructFileSystems ==
    {NoFiles,
     [path \in {T_root_aliyun_cfg} |-> FullFile(T_root_id, T_root_secret)]}

InitConstruct ==
    /\ conn = Unconstructed
    /\ params = <<<<T_Action, PyStr(T_DescribeInstances)>>>>
    /\ paginated = FALSE
    /\ pc = "off"
    /\ parameters = <<>>
    /\ requests = <<>>
    /\ served = <<>>
    /\ responses = <<>>
    /\ remaining_pages = 0
    /\ i = 0
    /\ result = NoResult
    /\ clock = 0
    /\ nonces = 0
    /\ encoding = None
    /\ stdin_encoding = None
    /\ SignerIdle
    /\ ApiIdle
    /\ cpc = "off"
    /\ environ \in ConstructEnvironments
    /\ files \in ConstructFileSystems
    /\ lookups = <<>>
    /\ creds = Raise(None)
    /\ ipc = "ready"
    /\ init_args \in Constructions

\* the constructor runs; a caller that got a connection calls get on it,
\* and the server rejects the request or cannot be reached
NextConstruct ==
    \/ Construct
    \/ \E pag \in BOOLEAN : Get(pag)
    \/ \E body \in ErrorBodies : ResponseHttpError(body)
    \/ ResponseUrlError

SpecConstruct == InitConstruct /\ [][NextConstruct]_vars

-----------------------------------------------------------------------------
(* Properties of the constructors, checked under SpecConstruct *)

\* the service name the constructor call hands to Connection.__init__
ServiceArgument == ServiceOf(init_args.cls, init_args.service)

\* C12: constructing a Connection with a service name that has no
\* descriptor fails at construction: the constructor raises, it has looked
\* up nothing in the environment and no file, and no request is ever issued.
C12_UnrecognizedServiceFailsEarly ==
    (ipc = "done" /\ ServiceArgument \notin {"ecs", "slb", "dns"}) =>
        /\ conn.raised \in {"Error", "NotImplementedError"}
        /\ lookups = <<>>
        /\ creds = Raise(None)
        /\ pc = "off"
        /\ requests = <<>>

\* Connection('cn-hangzhou', 's3') without keys, in an environment that
\* holds credentials and beside a file that holds some
C12_Witness ==
    /\ ipc = "done"
    /\ init_args.cls = "Connection"
    /\ init_args.service = "s3"
    /\ init_args.region_id = T_cn_hangzhou
    /\ IsNone(init_args.access_key_id)
    /\ environ["ALI_ACCESS_KEY_ID"] = PyStr(T_env_id)
    /\ files # NoFiles
    /\ conn.raised = "NotImplementedError"
    /\ lookups = <<>>

\* C13: each of the service names ecs, slb, dns, rds and ess resolves at
\* construction to a descriptor: with a region and explicit credentials
\* EcsConnection, SlbConnection, DnsConnection, RdsConnection and
\* EssConnection are constructed, with a base URL and an API version.
C13_RecognizedServices ==
    (/\ ipc = "done"
     /\ ServiceArgument \in {"ecs", "slb", "dns", "rds", "ess"}
     /\ init_args.region_id # <<>>
     /\ ~IsNone(init_args.access_key_id)
     /\ ~IsNone(init_args.secret_access_key)) =>
        /\ conn.raised = None
        /\ conn.service # <<>>
        /\ conn.version # <<>>

-----------------------------------------------------------------------------
(* The service connections' methods (src/aliyun/ecs/connection.py,        *)
(* src/aliyun/slb/connection.py).  A method builds parameter dicts and    *)
(* hands them to self.get; what get returns or raises is the server's     *)
(* doing.  These methods never take text apart, so here a str is written  *)
(* as a TLA+ string and a dict's keys are TLA+ strings.                   *)

PyBool(b) == [type |-> "bool", v |-> b]
PyList(items) == [type |-> "list", v |-> items]

\* the truth value Python gives x in `if x:`
Truthy(x) ==
    IF x.type = "NoneType" THEN FALSE
    ELSE IF x.type = "int" THEN x.v # 0
    ELSE IF x.type = "bool" THEN x.v
    ELSE IF x.type = "list" THEN x.v # <<>>
    ELSE x.v # ""

\* str(n)
Str(x) == PyStr(ToString(x.v))

BLOCK_TILL_RUNNING_SECS == 600

\* d with d[key] = val when cond holds (d is evaluated once, as d0)
SetIf(cond, d, key, val) ==
    CHOOSE set \in {IF cond THEN DictSet(d0, key, val) ELSE d0 : d0 \in {d}} : TRUE

\* a DiskMapping that takes any size and snapshot_id
DiskMappingUnchecked(disk) == FALSE

\* model.DiskMapping.__init__ raises DiskMappingError
DiskMappingConflict(disk) == ~IsNone(disk.size) /\ ~IsNone(disk.snapshot_id)

\* model.DiskMapping.api_dict(ordinal)
api_dict(disk, ordinal) ==
    LET ddisk == "DataDisk." \o ToString(ordinal) \o "."
        d0 == <<<<ddisk \o "Category", disk.category>>>>
        d1 == SetIf(Truthy(disk.size), d0, ddisk \o "Size", disk.size)
        d2 == SetIf(Truthy(disk.snapshot_id), d1, ddisk \o "SnapshotId", disk.snapshot_id)
        d3 == SetIf(Truthy(disk.name), d2, ddisk \o "DiskName", disk.name)
        d4 == SetIf(Truthy(disk.description), d3, ddisk \o "Description", disk.description)
    IN SetIf(Truthy(disk.device), d4, ddisk \o "Device", disk.device)

\* the loop over enumerate(data_disks), up to the k-th disk
RECURSIVE DataDiskParams(_, _, _)
DataDiskParams(p, data_disks, k) ==
    IF k = 0 THEN p
    ELSE DictUpdate(DataDiskParams(p, data_disks, k - 1),
                    api_dict(data_disks[k], k))

\* the periods, in months, create_instance accepts for a PrePaid instance
Periods == {1, 2, 3, 4, 5, 6, 7, 8, 9, 12, 24, 36}

\* EcsConnection.create_instance, the instance charge type and period
WithChargeType(p, instancechargetype, period) ==
    IF instancechargetype = PyStr("PostPaid")
    THEN [raised |-> None,
          params |-> DictSet(p, "InstanceChargeType", PyStr("PostPaid"))]
    ELSE IF instancechargetype = PyStr("PrePaid")
    THEN IF ~Truthy(period) \/ period.v \notin Periods
         THEN [raised |-> "SystemExit", params |-> p]
         ELSE [raised |-> None,
               params |-> DictSet(DictSet(p, "InstanceChargeType", PyStr("PrePaid")),
                                  "Period", period)]
    ELSE [raised |-> "SystemExit", params |-> p]

\* EcsConnection.create_instance up to self.get(params): the parameter dict
\* it builds from its arguments a, or what it raises while building it
create_instance_params(a) ==
    LET data_disks == IF IsNone(a.data_disks) THEN <<>> ELSE a.data_disks.v
        p0 == <<<<"Action", PyStr("CreateInstance")>>,
                <<"ImageId", a.image_id>>,
                <<"InstanceType", a.instance_type>>,
                <<"SecurityGroupId", a.security_group_id>>>>
        p1 == SetIf(Truthy(a.instance_name), p0, "InstanceName", a.instance_name)
        p2 == SetIf(Truthy(a.internet_max_bandwidth_in), p1,
                    "InternetMaxBandwidthIn", Str(a.internet_max_bandwidth_in))
        p3 == SetIf(Truthy(a.internet_max_bandwidth_out), p2,
                    "InternetMaxBandwidthOut", Str(a.internet_max_bandwidth_out))
        p4 == SetIf(Truthy(a.hostname), p3, "HostName", a.hostname)
        p5 == SetIf(Truthy(a.password), p4, "Password", a.password)
        p6 == SetIf(Truthy(a.system_disk_type), p5, "SystemDisk.Category",
                    a.system_disk_type)
        p7 == SetIf(Truthy(a.internet_charge_type), p6, "InternetChargeType",
                    a.internet_charge_type)
        charged == WithChargeType(p7, a.instancechargetype, a.period)
        conflicts == {k \in 1..Len(data_disks) : DiskMappingConflict(data_disks[k])}
        first == IF conflicts = {} THEN Len(data_disks)
                 ELSE (CHOOSE k \in conflicts : \A j \in conflicts : k <= j) - 1
        p8 == DataDiskParams(charged.params, data_disks, first)
        p9 == SetIf(Truthy(a.description), p8, "Description", a.description)
    IN IF charged.raised # None THEN charged
       ELSE IF conflicts # {} THEN [raised |-> "DiskMappingError", params |-> p8]
       ELSE [raised |-> None,
             params |-> SetIf(Truthy(a.zone_id), p9, "ZoneId", a.zone_id)]

\* the local variables of the methods, before any is assigned
NoLocals ==
    [instance_id |-> PyNone, sg |-> 0, running |-> FALSE, total_time |-> 0,
     snapshot_id |-> PyNone, created |-> FALSE, system_disk |-> PyNone,
     image_id |-> PyNone, lbs |-> <<>>, server |-> 0, lb |-> 0]

\* self.get(p, paginated=pag) called in `method`, after time.sleep(slept):
\* the method waits for what get returns, with the locals loc
ApiGet(method, p, pag, loc, slept) ==
    /\ gets' = Append(gets, [method |-> method, params |-> p, paginated |-> pag])
    /\ apc' = method
    /\ local' = loc
    /\ clock' = clock + slept
    /\ UNCHANGED returned

\* return value, after time.sleep(slept)
ApiReturn(value, loc, slept) ==
    /\ apc' = "returned"
    /\ returned' = Returned(value)
    /\ local' = loc
    /\ clock' = clock + slept
    /\ UNCHANGED gets

\* raise exception(message)
ApiRaise(exception, message, loc) ==
    /\ apc' = "raised"
    /\ returned' = Raised(exception, message)
    /\ local' = loc
    /\ UNCHANGED <<gets, clock>>

\* the arguments create_and_start_instance hands to create_instance
CreateInstanceArgs(a) ==
    [image_id |-> a.image_id, instance_type |-> a.instance_type,
     security_group_id |-> a.initial_security_group_id,
     instance_name |-> a.instance_name,
     internet_max_bandwidth_in |-> a.internet_max_bandwidth_in,
     internet_max_bandwidth_out |-> a.internet_max_bandwidth_out,
     hostname |-> a.hostname, password |-> a.password,
     system_disk_type |-> a.system_disk_type,
     internet_charge_type |-> a.internet_charge_type,
     instancechargetype |-> PyStr("PrePaid"), period |-> PyInt(1),
     data_disks |-> IF IsNone(a.data_disks) THEN PyList(<<>>) ELSE a.data_disks,
     description |-> a.description, zone_id |-> a.zone_id]

\* self.create_instance(...) as far as its self.get
CallCreateInstance(a, loc) ==
    \E built \in {create_instance_params(a)} :
        IF built.raised # None
        THEN ApiRaise(built.raised, "", loc)
        ELSE ApiGet("create_instance", built.params, FALSE, loc, 0)

\* a wait that returns the id once the time is up
WaitRunningLenient(loc) ==
    IF loc.total_time <= BLOCK_TILL_RUNNING_SECS
    THEN ApiGet("get_instance",
                <<<<"Action", PyStr("DescribeInstanceAttribute")>>,
                  <<"InstanceId", loc.instance_id>>>>,
                FALSE, [loc EXCEPT !.total_time = @ + 30], 30)
    ELSE ApiReturn(loc.instance_id, loc, 0)

\* create_and_start_instance, the blocking wait: while total_time <=
\* BLOCK_TILL_RUNNING_SECS, sleep, count and poll get_instance
WaitRunning(loc) ==
    IF loc.total_time <= BLOCK_TILL_RUNNING_SECS
    THEN ApiGet("get_instance",
                <<<<"Action", PyStr("DescribeInstanceAttribute")>>,
                  <<"InstanceId", loc.instance_id>>>>,
                FALSE, [loc EXCEPT !.total_time = @ + 30], 30)
    ELSE ApiRaise("Error", "Timed out while waiting for instance to run", loc)

\* create_and_start_instance from time.sleep(10); self.start_instance on
StartInstance(loc, slept) ==
    ApiGet("start_instance",
           <<<<"Action", PyStr("StartInstance")>>,
             <<"InstanceId", loc.instance_id>>>>, FALSE, loc, slept + 10)

\* a public ip is allocated whether or not assign_public_ip asks for one
AllocateAlways(loc, slept) ==
    ApiGet("allocate_public_ip",
           <<<<"Action", PyStr("AllocatePublicIpAddress")>>,
             <<"InstanceId", loc.instance_id>>>>, FALSE, loc, slept)

\* create_and_start_instance from `if assign_public_ip:` on
AllocateThenStart(loc, slept) ==
    IF Truthy(call.args.assign_public_ip)
    THEN ApiGet("allocate_public_ip",
                <<<<"Action", PyStr("AllocatePublicIpAddress")>>,
                  <<"InstanceId", loc.instance_id>>>>, FALSE, loc, slept)
    ELSE StartInstance(loc, slept)

\* create_and_start_instance, the loop over additional_security_group_ids
\* from its k-th element on, and what follows the loop
JoinSecurityGroups(k, loc, slept) ==
    IF k <= Len(call.args.additional_security_group_ids.v)
    THEN ApiGet("join_security_group",
                <<<<"Action", PyStr("JoinSecurityGroup")>>,
                  <<"InstanceId", loc.instance_id>>,
                  <<"SecurityGroupId", call.args.additional_security_group_ids.v[k]>>>>,
                FALSE, [loc EXCEPT !.sg = k], slept)
    ELSE AllocateThenStart(loc, slept)

\* the arguments of the running create_snapshot call: the caller's, or
\* those create_image_from_instance hands over
SnapshotArgs(loc) ==
    IF call.method = "create_snapshot" THEN call.args
    ELSE [instance_id |-> call.args.instance_id,
          disk_id |-> loc.system_disk.disk_id,
          snapshot_name |-> PyNone,
          timeout_secs |-> call.args.timeout_secs,
          description |-> PyNone]

\* self.create_snapshot(...) as far as its self.get
CallCreateSnapshot(loc) ==
    LET a == SnapshotArgs(loc)
        p0 == <<<<"Action", PyStr("CreateSnapshot")>>,
                <<"InstanceId", a.instance_id>>,
                <<"DiskId", a.disk_id>>>>
        p1 == SetIf(Truthy(a.snapshot_name), p0, "SnapshotName", a.snapshot_name)
    IN ApiGet("create_snapshot",
              SetIf(Truthy(a.description), p1, "Description", a.description),
              FALSE, loc, 0)

\* json.dumps([snapshot_id])
json_dumps_list(snapshot_id) == PyStr("[\"" \o snapshot_id.v \o "\"]")

\* self.create_image(snapshot_id, ...) as far as its self.get
CallCreateImage(loc) ==
    LET a == call.args
        p0 == <<<<"Action", PyStr("CreateImage")>>,
                <<"SnapshotId", loc.snapshot_id>>>>
        p1 == SetIf(Truthy(a.image_version), p0, "ImageVersion", a.image_version)
        p2 == SetIf(Truthy(a.description), p1, "Description", a.description)
    IN ApiGet("create_image", SetIf(Truthy(a.os_name), p2, "OSName", a.os_name),
              FALSE, loc, 0)

\* create_snapshot returns snapshot_id: to its caller, or into
\* create_image_from_instance, which goes on to create the image
SnapshotReturns(loc) ==
    IF call.method = "create_snapshot"
    THEN ApiReturn(loc.snapshot_id, loc, 0)
    ELSE CallCreateImage(loc)

\* 'Snapshot %s not ready in %s seconds' % (snapshot_id, timeout_secs)
NotReadyMessage(loc) ==
    "Snapshot " \o loc.snapshot_id.v \o " not ready in "
        \o ToString(SnapshotArgs(loc).timeout_secs.v) \o " seconds"

\* the image is created whether or not the snapshot became ready
SnapshotAbandoned(loc) ==
    IF call.method = "create_snapshot"
    THEN ApiRaise("Error", NotReadyMessage(loc), loc)
    ELSE CallCreateImage(loc)

\* `if timeout_secs and not created: raise Error(...)`
SnapshotNotReady(loc) == ApiRaise("Error", NotReadyMessage(loc), loc)

\* create_snapshot, the blocking wait: while total_time <= timeout_secs,
\* sleep, count and poll describe_snapshot; then the test of created
WaitSnapshot(loc) ==
    IF loc.total_time <= SnapshotArgs(loc).timeout_secs.v
    THEN ApiGet("describe_snapshot",
                <<<<"Action", PyStr("DescribeSnapshots")>>,
                  <<"SnapshotIds", json_dumps_list(loc.snapshot_id)>>>>,
                TRUE, [loc EXCEPT !.total_time = @ + 30], 30)
    ELSE SnapshotNotReady(loc)

\* int(text) of a decimal numeral given by its characters
RECURSIVE int(_)
int(digits) ==
    IF digits = <<>> THEN 0
    ELSE 10 * int(SubSeq(digits, 1, Len(digits) - 1)) + (digits[Len(digits)] - 48)

\* int(snapshot['Progress'][:-1])
Progress(text) == int(SubSeq(text, 1, Len(text) - 1))

\* next((d for d in disks if d.disk_type == 'system'), None)
FirstSystemDisk(disks) ==
    LET system == {k \in 1..Len(disks) : disks[k].disk_type = "system"}
    IN IF system = {} THEN PyNone
       ELSE [type |-> "Disk",
             disk_id |-> disks[CHOOSE k \in system : \A j \in system : k <= j].disk_id]

\* the sequences that list the elements of S once each
Orderings(S) ==
    {f \in [1..Cardinality(S) -> S] : \A x \in S : \E k \in DOMAIN f : f[k] = x}

\* deregister_backend_server_ids, the loop over lbs.iteritems() from its
\* k-th item on: remove_backend_server_ids(lb_id, list(set(bs_ids))), the
\* set listed in any order; then `return lbs.keys()`
RemoveFrom(k, loc) ==
    IF k <= Len(loc.lbs)
    THEN \E backends \in Orderings(Range(loc.lbs[k][2])) :
            ApiGet("remove_backend_server_ids",
                   <<<<"Action", PyStr("RemoveBackendServers")>>,
                     <<"LoadBalancerId", loc.lbs[k][1]>>,
                     <<"BackendServers",
                       PyList([j \in 1..Len(backends) |->
                                  <<<<"ServerId", backends[j]>>>>])>>>>,
                   FALSE, [loc EXCEPT !.lb = k], 0)
    ELSE ApiReturn(PyList([j \in 1..Len(loc.lbs) |-> loc.lbs[j][1]]), loc, 0)

\* a removal goes out as soon as a load balancer has reported a server
RemoveEagerly(k, loc) ==
    IF loc.lbs # <<>> /\ loc.lb = 0
    THEN RemoveFrom(1, loc)
    ELSE IF k <= Len(call.args.server_ids.v)
    THEN ApiGet("get_all_load_balancer_status",
                SetIf(Truthy(call.args.server_ids.v[k]),
                      <<<<"Action", PyStr("DescribeLoadBalancers")>>>>,
                      "ServerId", call.args.server_ids.v[k]),
                FALSE, [loc EXCEPT !.server = k], 0)
    ELSE ApiReturn(PyList([j \in 1..Len(loc.lbs) |-> loc.lbs[j][1]]), loc, 0)

\* deregister_backend_server_ids, the loop over server_ids from its k-th
\* element on: get_all_load_balancer_status(instance_id); after the loop
\* the dict's items are gone through, in the order the dict keeps them
QueryFrom(k, loc) ==
    IF k <= Len(call.args.server_ids.v)
    THEN ApiGet("get_all_load_balancer_status",
                SetIf(Truthy(call.args.server_ids.v[k]),
                      <<<<"Action", PyStr("DescribeLoadBalancers")>>>>,
                      "ServerId", call.args.server_ids.v[k]),
                FALSE, [loc EXCEPT !.server = k], 0)
    ELSE \E order \in Orderings(Range(loc.lbs)) :
            RemoveFrom(1, [loc EXCEPT !.lbs = order])

\* lbs[lb_status.load_balancer_id].append(instance_id) for every status of
\* the list, from the k-th on
RECURSIVE AppendServer(_, _, _, _)
AppendServer(lbs, statuses, k, instance_id) ==
    IF k > Len(statuses) THEN lbs
    ELSE LET lb_id == statuses[k].LoadBalancerId
             bs_ids == IF lb_id \in DictKeys(lbs) THEN DictGet(lbs, lb_id) ELSE <<>>
         IN AppendServer(DictSet(lbs, lb_id, Append(bs_ids, instance_id)),
                         statuses, k + 1, instance_id)

\* conn.create_instance(...)
CreateInstance ==
    /\ apc = "ready"
    /\ call.method = "create_instance"
    /\ \E a \in {call.args} : CallCreateInstance(a, NoLocals)
    /\ UNCHANGED <<call, answers, request_vars, sign_vars, cred_vars, init_vars>>

\* conn.create_disk(zone_id, name, description, size, snapshot_id)
CreateDisk ==
    /\ apc = "ready"
    /\ call.method = "create_disk"
    /\ LET a == call.args
           p0 == <<<<"Action", PyStr("CreateDisk")>>, <<"ZoneId", a.zone_id>>>>
           p1 == SetIf(~IsNone(a.size), p0, "Size", a.size)
           p2 == SetIf(~IsNone(a.snapshot_id), p1, "SnapshotId", a.snapshot_id)
           p3 == SetIf(~IsNone(a.name), p2, "DiskName", a.name)
       IN IF ~IsNone(a.size) /\ ~IsNone(a.snapshot_id)
          THEN ApiRaise("Error", "Use size or snapshot_id. Not both.", NoLocals)
          ELSE ApiGet("create_disk",
                      SetIf(~IsNone(a.description), p3, "Description", a.description),
                      FALSE, NoLocals, 0)
    /\ UNCHANGED <<call, answers, request_vars, sign_vars, cred_vars, init_vars>>

\* conn.create_and_start_instance(...)
CreateAndStartInstance ==
    /\ apc = "ready"
    /\ call.method = "create_and_start_instance"
    /\ IF Len(call.args.additional_security_group_ids.v) > 4
       THEN ApiRaise("Error", "Instance can have max 5 security groups", NoLocals)
       ELSE \E a \in {CreateInstanceArgs(call.args)} :
               CallCreateInstance(a, NoLocals)
    /\ UNCHANGED <<call, answers, request_vars, sign_vars, cred_vars, init_vars>>

\* conn.create_snapshot(instance_id, disk_id, snapshot_name, timeout_secs,
\* description)
CreateSnapshot ==
    /\ apc = "ready"
    /\ call.method = "create_snapshot"
    /\ CallCreateSnapshot(NoLocals)
    /\ UNCHANGED <<call, answers, request_vars, sign_vars, cred_vars, init_vars>>

\* conn.create_image_from_instance(instance_id, image_version, description,
\* os_name, timeout_secs): describe_instance_disks comes first
CreateImageFromInstance ==
    /\ apc = "ready"
    /\ call.method = "create_image_from_instance"
    /\ ApiGet("describe_instance_disks",
              SetIf(Truthy(call.args.instance_id),
                    <<<<"Action", PyStr("DescribeDisks")>>>>,
                    "InstanceId", call.args.instance_id),
              TRUE, NoLocals, 0)
    /\ UNCHANGED <<call, answers, request_vars, sign_vars, cred_vars, init_vars>>

\* conn.deregister_backend_server_ids(server_ids)
DeregisterBackendServerIds ==
    /\ apc = "ready"
    /\ call.method = "deregister_backend_server_ids"
    /\ QueryFrom(1, NoLocals)
    /\ UNCHANGED <<call, answers, request_vars, sign_vars, cred_vars, init_vars>>

\* the positions at which a method waits for self.get
Waiting ==
    {"create_instance", "join_security_group", "allocate_public_ip",
     "start_instance", "get_instance", "create_disk", "create_snapshot",
     "describe_snapshot", "describe_instance_disks", "create_image",
     "get_all_load_balancer_status", "remove_backend_server_ids"}

\* self.get returns resp (for a paginated get: the pages' items, gathered)
\* and the method runs on to its next self.get, its return or its raise
GetReturns(resp) ==
    /\ apc \in Waiting
    /\ IF apc = "create_instance"
       THEN IF call.method = "create_instance"
            THEN ApiReturn(resp.InstanceId, local, 0)
            ELSE IF Truthy(call.args.additional_security_group_ids)
            THEN JoinSecurityGroups(1, [local EXCEPT !.instance_id = resp.InstanceId], 10)
            ELSE AllocateThenStart([local EXCEPT !.instance_id = resp.InstanceId], 0)
       ELSE IF apc = "join_security_group"
       THEN JoinSecurityGroups(local.sg + 1, local, 0)
       ELSE IF apc = "allocate_public_ip"
       THEN StartInstance(local, 0)
       ELSE IF apc = "start_instance"
       THEN IF Truthy(call.args.block_till_ready)
            THEN WaitRunning([local EXCEPT !.running = FALSE, !.total_time = 0])
            ELSE ApiReturn(local.instance_id, local, 0)
       ELSE IF apc = "get_instance"
       THEN IF resp.Status = "Running"
            THEN ApiReturn(local.instance_id, [local EXCEPT !.running = TRUE], 0)
            ELSE WaitRunning(local)
       ELSE IF apc = "create_disk"
       THEN ApiReturn(resp.DiskId, local, 0)
       ELSE IF apc = "create_snapshot"
       THEN IF Truthy(SnapshotArgs(local).timeout_secs)
            THEN WaitSnapshot([local EXCEPT !.snapshot_id = resp.SnapshotId,
                                            !.total_time = 0, !.created = FALSE])
            ELSE SnapshotReturns([local EXCEPT !.snapshot_id = resp.SnapshotId])
       ELSE IF apc = "describe_snapshot"
       THEN IF Len(resp.Snapshots) # 1
            THEN ApiRaise("Error",
                          "Could not find the snapshot: " \o local.snapshot_id.v,
                          local)
            ELSE IF Progress(resp.Snapshots[1].Progress) = 100
            THEN SnapshotReturns([local EXCEPT !.created = TRUE])
            ELSE WaitSnapshot(local)
       ELSE IF apc = "describe_instance_disks"
       THEN \E system_disk \in {FirstSystemDisk(resp.Disks)} :
               IF IsNone(system_disk)
               THEN ApiRaise("Error",
                             "System disk for " \o call.args.instance_id.v
                                 \o " not found", local)
               ELSE CallCreateSnapshot([local EXCEPT !.system_disk = system_disk])
       ELSE IF apc = "create_image"
       THEN ApiReturn(<<local.snapshot_id, resp.ImageId>>,
                      [local EXCEPT !.image_id = resp.ImageId], 30)
       ELSE IF apc = "get_all_load_balancer_status"
       THEN QueryFrom(local.server + 1,
                      [local EXCEPT !.lbs = AppendServer(
                          @, resp.LoadBalancers, 1,
                          call.args.server_ids.v[local.server])])
       ELSE RemoveFrom(local.lb + 1, local)
    /\ answers' = Append(answers, [ok |-> TRUE, v |-> resp])
    /\ UNCHANGED <<call, request_vars, sign_vars, cred_vars, init_vars>>

\* self.get raises (the server rejected the request, or could not be
\* reached): no method catches it
GetRaises ==
    /\ apc \in Waiting
    /\ ApiRaise("aliyun.connection.Error", "", local)
    /\ answers' = Append(answers, [ok |-> FALSE, v |-> <<>>])
    /\ UNCHANGED <<call, request_vars, sign_vars, cred_vars, init_vars>>

-----------------------------------------------------------------------------
(* The method calls made and the answers self.get gives them *)

\* the longest list of additional security groups handed over
MaxGroups == 5
\* the longest timeout, in seconds, a caller gives create_snapshot
MaxTimeoutSecs == 90
\* the longest list of server ids handed to deregister_backend_server_ids
MaxServers == 2

\* create_instance('image', 'type', 'sg1')
MinimalInstance ==
    [image_id |-> PyStr("image"), instance_type |-> PyStr("type"),
     security_group_id |-> PyStr("sg1"), instance_name |-> PyNone,
     internet_max_bandwidth_in |-> PyNone, internet_max_bandwidth_out |-> PyNone,
     hostname |-> PyNone, password |-> PyNone, system_disk_type |-> PyNone,
     internet_charge_type |-> PyNone, instancechargetype |-> PyStr("PrePaid"),
     period |-> PyInt(1), data_disks |-> PyNone, description |-> PyNone,
     zone_id |-> PyNone]

\* DiskMapping's arguments, as a tuple or a dict of data_disks binds them
Disk(category, size, snapshot_id) ==
    [category |-> PyStr(category), size |-> size, snapshot_id |-> snapshot_id,
     name |-> PyNone, description |-> PyNone, device |-> PyNone]

\* data_disks: none, [], one sized disk, one disk from a snapshot, a disk
\* with both size and snapshot, and a sized disk followed by such a disk
DataDisks ==
    {PyNone, PyList(<<>>),
     PyList(<<Disk("cloud", PyInt(1024), PyNone)>>),
     PyList(<<Disk("ephemeral", PyNone, PyStr("snap"))>>),
     PyList(<<Disk("cloud", PyInt(1024), PyStr("snap"))>>),
     PyList(<<Disk("cloud", PyInt(1024), PyNone),
              Disk("cloud", PyInt(5), PyStr("snap"))>>)}

CreateInstanceCalls ==
    {[method |-> "create_instance", args |-> a] : a \in
        {[MinimalInstance EXCEPT !.data_disks = d] : d \in DataDisks}
        \cup {[MinimalInstance EXCEPT !.instancechargetype = c, !.period = p] :
              c \in {PyStr("PrePaid"), PyStr("PostPaid"), PyStr("Weekly"), PyNone},
              p \in {PyInt(1), PyInt(10), PyInt(0), PyNone}}
        \cup {[MinimalInstance EXCEPT !.instance_name = PyStr("name"),
                   !.internet_max_bandwidth_in = PyInt(1),
                   !.internet_max_bandwidth_out = PyInt(2),
                   !.hostname = PyStr("hname"), !.password = PyStr("pw"),
                   !.system_disk_type = PyStr("cloud"),
                   !.internet_charge_type = PyStr("PayByBandwidth"),
                   !.description = PyStr("desc"), !.zone_id = PyStr("test-zone-a")],
              [MinimalInstance EXCEPT !.instance_name = PyStr(""),
                   !.internet_max_bandwidth_in = PyInt(0),
                   !.hostname = PyStr("hname")],
              [MinimalInstance EXCEPT !.instancechargetype = PyNone,
                   !.data_disks =
                       PyList(<<Disk("cloud", PyInt(1024), PyStr("snap"))>>)]}}

CreateDiskCalls ==
    {[method |-> "create_disk",
      args |-> [zone_id |-> PyStr("z1"), name |-> name, description |-> PyNone,
                size |-> size, snapshot_id |-> snapshot_id]] :
     name \in {PyNone, PyStr("")}, size \in {PyNone, PyInt(5)},
     snapshot_id \in {PyNone, PyStr("snap")}}

\* ['sg2', ..., 'sg<n+1>']
SecurityGroups(n) == PyList([k \in 1..n |-> PyStr("sg" \o ToString(k + 1))])

CreateAndStartInstanceCalls ==
    {[method |-> "create_and_start_instance",
      args |-> [image_id |-> PyStr("image"), instance_type |-> PyStr("type"),
                initial_security_group_id |-> PyStr("sg1"),
                additional_security_group_ids |-> SecurityGroups(n),
                instance_name |-> PyNone, internet_max_bandwidth_in |-> PyNone,
                internet_max_bandwidth_out |-> PyNone, hostname |-> PyNone,
                password |-> PyNone, system_disk_type |-> PyNone,
                internet_charge_type |-> PyNone,
                assign_public_ip |-> PyBool(assign),
                block_till_ready |-> PyBool(block),
                data_disks |-> d, description |-> PyNone, zone_id |-> PyNone]] :
     n \in 0..MaxGroups, assign \in BOOLEAN, block \in BOOLEAN,
     d \in {PyNone, PyList(<<Disk("cloud", PyInt(1024), PyStr("snap"))>>)}}

\* the timeouts callers give: none, 0, a negative one, and some up to the
\* longest
TimeoutSecs ==
    {PyNone, PyInt(0), PyInt(-1)}
        \cup {PyInt(t) : t \in {30, 45, MaxTimeoutSecs} \cap 1..MaxTimeoutSecs}

CreateSnapshotCalls ==
    {[method |-> "create_snapshot",
      args |-> [instance_id |-> PyStr("i1"), disk_id |-> PyStr("d1"),
                snapshot_name |-> name, timeout_secs |-> t,
                description |-> PyNone]] :
     name \in {PyNone, PyStr("name")}, t \in TimeoutSecs}

CreateImageFromInstanceCalls ==
    {[method |-> "create_image_from_instance",
      args |-> [instance_id |-> PyStr("i1"), image_version |-> v,
                description |-> v, os_name |-> v, timeout_secs |-> t]] :
     v \in {PyNone, PyStr("1.0")}, t \in TimeoutSecs}

\* the lists of up to MaxServers ids out of 'sid' and 'sid2'
DeregisterCalls ==
    {[method |-> "deregister_backend_server_ids",
      args |-> [server_ids |-> PyList(ids)]] :
     ids \in UNION {[1..n -> {PyStr("sid"), PyStr("sid2")}] : n \in 0..MaxServers}}

\* '0%', '50%', '100%'
ProgressTexts == {<<48, 37>>, <<53, 48, 37>>, <<49, 48, 48, 37>>}

\* what self.get returns to the method that waits at position at
Responses(at) ==
    IF at = "create_instance" THEN {[InstanceId |-> PyStr("i1")]}
    ELSE IF at = "get_instance" THEN {[Status |-> s] : s \in {"Running", "Starting"}}
    ELSE IF at = "create_disk" THEN {[DiskId |-> PyStr("d1")]}
    ELSE IF at = "create_snapshot" THEN {[SnapshotId |-> PyStr("s1")]}
    ELSE IF at = "create_image" THEN {[ImageId |-> PyStr("m1")]}
    ELSE IF at = "describe_snapshot"
    THEN {[Snapshots |-> <<>>]}
         \cup {[Snapshots |-> <<[Progress |-> p]>>] : p \in ProgressTexts}
         \cup {[Snapshots |-> <<[Progress |-> <<49, 48, 48, 37>>],
                                [Progress |-> <<49, 48, 48, 37>>]>>]}
    ELSE IF at = "describe_instance_disks"
    THEN {[Disks |-> <<>>],
          [Disks |-> <<[disk_id |-> PyStr("d0"), disk_type |-> "data"]>>],
          [Disks |-> <<[disk_id |-> PyStr("d1"), disk_type |-> "system"]>>],
          [Disks |-> <<[disk_id |-> PyStr("d0"), disk_type |-> "data"],
                       [disk_id |-> PyStr("d1"), disk_type |-> "system"],
                       [disk_id |-> PyStr("d2"), disk_type |-> "system"]>>]}
    ELSE IF at = "get_all_load_balancer_status"
    THEN {[LoadBalancers |-> lbs] : lbs \in
            {<<>>, <<[LoadBalancerId |-> PyStr("lbid")]>>,
             <<[LoadBalancerId |-> PyStr("lbid")], [LoadBalancerId |-> PyStr("lbid2")]>>,
             <<[LoadBalancerId |-> PyStr("lbid")], [LoadBalancerId |-> PyStr("lbid")]>>}}
    ELSE {[RequestId |-> "r"]}

\* a constructed connection, and a caller about to call one of its methods
InitApi ==
    /\ GetIdle
    /\ encoding = None
    /\ stdin_encoding = None
    /\ SignerIdle
    /\ CredentialsIdle
    /\ InitIdle
    /\ apc = "ready"
    /\ \/ call \in CreateInstanceCalls
       \/ call \in CreateDiskCalls
       \/ call \in CreateAndStartInstanceCalls
       \/ call \in CreateSnapshotCalls
       \/ call \in CreateImageFromInstanceCalls
       \/ call \in DeregisterCalls
    /\ gets = <<>>
    /\ answers = <<>>
    /\ local = NoLocals
    /\ returned = NoResult

NextApi ==
    \/ CreateInstance
    \/ CreateDisk
    \/ CreateAndStartInstance
    \/ CreateSnapshot
    \/ CreateImageFromInstance
    \/ DeregisterBackendServerIds
    \/ \E resp \in Responses(apc) : GetReturns(resp)
    \/ GetRaises

SpecApi == InitApi /\ [][NextApi]_vars

\* the methods run on, and every self.get comes back
FairSpecApi == SpecApi /\ WF_vars(NextApi)

-----------------------------------------------------------------------------
(* Properties of the service connections' methods, checked under SpecApi *)
(* and FairSpecApi                                                        *)

\* the method call is over
ApiDone == apc \in {"returned", "raised"}

\* the gets, by their place in the log, that `method` issued
GetsOf(method) == {k \in 1..Len(gets) : gets[k].method = method}

\* self.get returned to the k-th get
Answered(k) == k <= Len(answers) /\ answers[k].ok

\* the k-th get is a poll whose answer shows the ready state: the instance
\* is 'Running', the one snapshot is at '100%'
ObservedReady(k) ==
    /\ Answered(k)
    /\ \/ /\ gets[k].method = "get_instance"
          /\ answers[k].v.Status = "Running"
       \/ /\ gets[k].method = "describe_snapshot"
          /\ Len(answers[k].v.Snapshots) = 1
          /\ answers[k].v.Snapshots[1].Progress = <<49, 48, 48, 37>>

\* the k-th get is a poll that was answered with a state
ObservedState(k) ==
    /\ Answered(k)
    /\ gets[k].method = "describe_snapshot" => Len(answers[k].v.Snapshots) = 1

\* the call is one that waits: create_and_start_instance with
\* block_till_ready, create_snapshot with a timeout
StartsBlocking ==
    call.method = "create_and_start_instance" /\ call.args.block_till_ready.v

SnapshotBlocking ==
    call.method = "create_snapshot" /\ Truthy(call.args.timeout_secs)

\* the polls of the wait, the most it may make, the get whose return
\* begins the wait, the id it waits for and its timeout error
WaitPolls ==
    IF StartsBlocking THEN GetsOf("get_instance") ELSE GetsOf("describe_snapshot")

WaitMostPolls ==
    IF StartsBlocking THEN (BLOCK_TILL_RUNNING_SECS \div 30) + 1
    ELSE (call.args.timeout_secs.v \div 30) + 1

WaitBegun ==
    \E k \in GetsOf(IF StartsBlocking THEN "start_instance" ELSE "create_snapshot") :
        Answered(k)

WaitedId ==
    IF StartsBlocking THEN answers[1].v.InstanceId ELSE answers[1].v.SnapshotId

WaitTimeout ==
    IF StartsBlocking
    THEN Raised("Error", "Timed out while waiting for instance to run")
    ELSE Raised("Error", "Snapshot s1 not ready in "
                    \o ToString(call.args.timeout_secs.v) \o " seconds")

PollUntilReady ==
    (StartsBlocking \/ SnapshotBlocking) =>
        /\ Cardinality(WaitPolls) <= WaitMostPolls
        /\ \A k \in WaitPolls :
              ObservedReady(k) =>
                  /\ k = Len(gets)
                  /\ ApiDone
                  /\ returned = Returned(WaitedId)
        /\ (ApiDone /\ returned.kind = "returned") =>
              \E k \in WaitPolls : ObservedReady(k)
        /\ (/\ ApiDone
            /\ WaitBegun
            /\ \A k \in WaitPolls : ObservedState(k) /\ ~ObservedReady(k)) =>
              returned = WaitTimeout

\* C14: the blocking wait of create_and_start_instance (block_till_ready)
\* and of create_snapshot (timeout_secs given) ends, after no more polls
\* than its time allows; it returns the id at the first poll that observes
\* the ready state and polls no further; if every poll observes another
\* state it raises its timeout Error; it never returns the id unless a
\* poll observed the ready state.
C14_PollUntilReadyTerminates ==
    /\ []PollUntilReady
    /\ (StartsBlocking \/ SnapshotBlocking) ~> ApiDone

\* create_and_start_instance returned the id after two polls saw the
\* instance starting and the third saw it running
C14_Witness ==
    /\ StartsBlocking
    /\ ApiDone
    /\ returned = Returned(PyStr("i1"))
    /\ Cardinality(GetsOf("get_instance")) = 3
    /\ \A k \in GetsOf("get_instance") :
          answers[k].v.Status = IF k = Len(gets) THEN "Running" ELSE "Starting"

\* the steps of create_and_start_instance before its wait, in the order of
\* the code: create, one join per additional group, the public ip if asked
\* for, start
OrchestrationSteps ==
    <<"create_instance">>
        \o [k \in 1..Len(call.args.additional_security_group_ids.v) |->
               "join_security_group"]
        \o (IF Truthy(call.args.assign_public_ip)
            THEN <<"allocate_public_ip">> ELSE <<>>)
        \o <<"start_instance">>

\* C15: create_and_start_instance calls create_instance first and once,
\* then join_security_group once per additional group in list order, then
\* allocate_public_ip only if assign_public_ip, then start_instance once;
\* get_instance is polled only after start_instance and only if
\* block_till_ready; a step that fails is the last step, and the call
\* returns only after all the steps before the wait were made.
C15_OrchestrationOrder ==
    call.method = "create_and_start_instance" =>
        /\ \A k \in 1..Len(gets) :
              IF k <= Len(OrchestrationSteps)
              THEN /\ gets[k].method = OrchestrationSteps[k]
                   /\ gets[k].method = "join_security_group" =>
                         /\ DictGet(gets[k].params, "SecurityGroupId")
                               = call.args.additional_security_group_ids.v[k - 1]
                         /\ DictGet(gets[k].params, "InstanceId")
                               = answers[1].v.InstanceId
              ELSE /\ gets[k].method = "get_instance"
                   /\ Truthy(call.args.block_till_ready)
        /\ \A k \in 1..Len(answers) :
              ~answers[k].ok =>
                  /\ k = Len(gets)
                  /\ ApiDone
                  /\ returned.kind = "raised"
        /\ (ApiDone /\ returned.kind = "returned") =>
              /\ Len(gets) >= Len(OrchestrationSteps)
              /\ Cardinality(GetsOf("create_instance")) = 1
              /\ Cardinality(GetsOf("start_instance")) = 1
              /\ Cardinality(GetsOf("join_security_group"))
                    = Len(call.args.additional_security_group_ids.v)

\* two additional groups, a public ip and a wait: the call returned after
\* create, join sg2, join sg3, allocate, start and one poll
C15_Witness ==
    /\ call.method = "create_and_start_instance"
    /\ ApiDone
    /\ returned.kind = "returned"
    /\ [k \in 1..Len(gets) |-> gets[k].method]
          = <<"create_instance", "join_security_group", "join_security_group",
              "allocate_public_ip", "start_instance", "get_instance">>
    /\ DictGet(gets[3].params, "SecurityGroupId") = PyStr("sg3")

\* the call has ended by raising exception(message)
HasRaised(exception, message) ==
    /\ returned.kind = "raised"
    /\ returned.v.type = exception
    /\ returned.v.args = message

ParamOf(k, key) == DictGet(gets[k].params, key)

\* the disks describe_instance_disks returned hold no disk of type 'system'
NoSystemDisk ==
    /\ Answered(1)
    /\ \A j \in 1..Len(answers[1].v.Disks) :
          answers[1].v.Disks[j].disk_type # "system"

\* C17: create_image_from_instance raises Error('System disk for ... not
\* found') and calls neither create_snapshot nor create_image if the
\* instance has no disk of type 'system'; otherwise it calls create_snapshot
\* on the first system disk and polls within the given timeout, calls
\* create_image only after create_snapshot has come back with a snapshot id
\* (with a timeout: after a poll saw the snapshot at 100%; never after a
\* failed or timed-out wait), and returns the pair (snapshot id, image id).
C17_ImageFromInstance ==
    call.method = "create_image_from_instance" =>
        /\ \A k \in 1..Len(gets) :
              k = 1 <=> gets[k].method = "describe_instance_disks"
        /\ NoSystemDisk =>
              /\ HasRaised("Error", "System disk for i1 not found")
              /\ Len(gets) = 1
        /\ \A k \in GetsOf("create_snapshot") :
              /\ k = 2
              /\ Answered(1)
              /\ ParamOf(k, "InstanceId") = call.args.instance_id
              /\ \E j \in 1..Len(answers[1].v.Disks) :
                    /\ answers[1].v.Disks[j].disk_type = "system"
                    /\ answers[1].v.Disks[j].disk_id = ParamOf(k, "DiskId")
                    /\ \A h \in 1..(j - 1) :
                          answers[1].v.Disks[h].disk_type # "system"
        /\ \A k \in GetsOf("describe_snapshot") :
              /\ Truthy(call.args.timeout_secs)
              /\ k > 2
              /\ Answered(2)
        /\ Truthy(call.args.timeout_secs) =>
              Cardinality(GetsOf("describe_snapshot"))
                  <= (call.args.timeout_secs.v \div 30) + 1
        /\ \A k \in GetsOf("create_image") :
              /\ k = Len(gets)
              /\ \A h \in 1..(k - 1) : Answered(h)
              /\ ParamOf(k, "SnapshotId") = answers[2].v.SnapshotId
              /\ IF Truthy(call.args.timeout_secs)
                 THEN gets[k - 1].method = "describe_snapshot" /\ ObservedReady(k - 1)
                 ELSE k = 3
        /\ (ApiDone /\ returned.kind = "returned") =>
              /\ gets[Len(gets)].method = "create_image"
              /\ returned.v = <<answers[2].v.SnapshotId, answers[Len(gets)].v.ImageId>>

\* the second of three disks was the first system disk; with a timeout of
\* 45 seconds the snapshot was at 50% and then at 100%, and the call
\* returned the pair
C17_Witness ==
    /\ call.method = "create_image_from_instance"
    /\ call.args.timeout_secs = PyInt(45)
    /\ ApiDone
    /\ returned.kind = "returned"
    /\ returned.v = <<PyStr("s1"), PyStr("m1")>>
    /\ Len(answers[1].v.Disks) = 3
    /\ ParamOf(2, "DiskId") = PyStr("d1")
    /\ [k \in 1..Len(gets) |-> gets[k].method]
          = <<"describe_instance_disks", "create_snapshot", "describe_snapshot",
              "describe_snapshot", "create_image">>

\* the instance had only a data disk: the call raised and made no other get
C17_NoSystemDiskWitness ==
    /\ call.method = "create_image_from_instance"
    /\ NoSystemDisk
    /\ Len(answers[1].v.Disks) = 1
    /\ ApiDone

\* the server ids of the call for which the answered queries reported the
\* load balancer lb_id
ReportedFor(lb_id) ==
    {call.args.server_ids.v[k] : k \in
        {q \in GetsOf("get_all_load_balancer_status") :
            /\ Answered(q)
            /\ \E j \in 1..Len(answers[q].v.LoadBalancers) :
                  answers[q].v.LoadBalancers[j].LoadBalancerId = lb_id}}

\* the load balancers some answered query reported
ReportedLoadBalancers ==
    UNION {{answers[q].v.LoadBalancers[j].LoadBalancerId :
               j \in 1..Len(answers[q].v.LoadBalancers)} :
           q \in {g \in GetsOf("get_all_load_balancer_status") : Answered(g)}}

\* the server ids the k-th get, a removal, lists
RemovedBy(k) ==
    [j \in 1..Len(ParamOf(k, "BackendServers").v) |->
        DictGet(ParamOf(k, "BackendServers").v[j], "ServerId")]

\* C18: deregister_backend_server_ids issues every load-balancer query, one
\* per element of server_ids and in their order, before any removal; then
\* each load balancer that reported at least one of the servers receives
\* exactly one RemoveBackendServers request, which lists each of its
\* matching server ids exactly once, duplicates in server_ids or not; the
\* returned ids are exactly the load balancers that received a removal
\* request, each once.
C18_DeregisterQueriesThenRemoves ==
    call.method = "deregister_backend_server_ids" =>
        /\ \A q \in GetsOf("get_all_load_balancer_status") :
              /\ q <= Len(call.args.server_ids.v)
              /\ ParamOf(q, "ServerId") = call.args.server_ids.v[q]
              /\ \A r \in GetsOf("remove_backend_server_ids") : q < r
        /\ \A r \in GetsOf("remove_backend_server_ids") :
              /\ Cardinality(GetsOf("get_all_load_balancer_status"))
                    = Len(call.args.server_ids.v)
              /\ \A q \in 1..(r - 1) : Answered(q)
              /\ ParamOf(r, "LoadBalancerId") \in ReportedLoadBalancers
              /\ Range(RemovedBy(r)) = ReportedFor(ParamOf(r, "LoadBalancerId"))
              /\ Len(RemovedBy(r)) = Cardinality(Range(RemovedBy(r)))
              /\ \A o \in GetsOf("remove_backend_server_ids") :
                    ParamOf(o, "LoadBalancerId") = ParamOf(r, "LoadBalancerId")
                        => o = r
        /\ (ApiDone /\ returned.kind = "returned") =>
              /\ Cardinality(GetsOf("get_all_load_balancer_status"))
                    = Len(call.args.server_ids.v)
              /\ {ParamOf(r, "LoadBalancerId") :
                     r \in GetsOf("remove_backend_server_ids")}
                    = ReportedLoadBalancers
              /\ Range(returned.v.v) = ReportedLoadBalancers
              /\ Len(returned.v.v) = Cardinality(ReportedLoadBalancers)

\* server_ids named the same server twice and both queries reported two
\* load balancers: each got one removal that lists the server once
C18_Witness ==
    /\ call.method = "deregister_backend_server_ids"
    /\ call.args.server_ids.v = <<PyStr("sid"), PyStr("sid")>>
    /\ ApiDone
    /\ returned.kind = "returned"
    /\ Len(returned.v.v) = 2
    /\ [k \in 1..Len(gets) |-> gets[k].method]
          = <<"get_all_load_balancer_status", "get_all_load_balancer_status",
              "remove_backend_server_ids", "remove_backend_server_ids">>
    /\ RemovedBy(3) = <<PyStr("sid")>>
    /\ RemovedBy(4) = <<PyStr("sid")>>

\* C19: create_instance called with only image_id, instance_type and
\* security_group_id issues exactly one request whose parameter keys are
\* exactly Action (= CreateInstance), ImageId, InstanceType and
\* SecurityGroupId, and returns the InstanceId of the response.
C19_MinimalCreateInstanceParams ==
    (/\ call.method = "create_instance"
     /\ call.args = MinimalInstance
     /\ apc # "ready") =>
        /\ Len(gets) = 1
        /\ DictKeys(gets[1].params)
              = {"Action", "ImageId", "InstanceType", "SecurityGroupId"}
        /\ ParamOf(1, "Action") = PyStr("CreateInstance")
        /\ (ApiDone /\ returned.kind = "returned") =>
              returned.v = answers[1].v.InstanceId

-----------------------------------------------------------------------------
(* The default overlay of _build_request, checked under Spec *)

\* a request is in flight: parameters holds its final parameter set, params
\* the mapping get handed to _build_request
InFlight == pc \in {"single", "first_page", "next_page"}

\* the defaults of the request in flight, built one second and one uuid ago
DefaultsInFlight == DefaultParameters(conn, strftime(clock - 1), uuid4(nonces - 1))

\* the default keys the final set is to hold: RegionId only when the
\* caller's mapping has no DomainName
DefaultKeysDue ==
    IF T_DomainName \in DictKeys(params)
    THEN DictKeys(DefaultsInFlight) \ {T_RegionId}
    ELSE DictKeys(DefaultsInFlight)

\* every default key that is due is in the final set, with the caller's
\* value if the caller supplied the key and with its default value if not
DefaultsOverlaid ==
    \A key \in DefaultKeysDue :
        /\ key \in DictKeys(parameters)
        /\ DictGet(parameters, key)
              = IF key \in DictKeys(params) THEN DictGet(params, key)
                ELSE DictGet(DefaultsInFlight, key)

\* the caller's key is in the final set with the caller's value
CallerValueKept(key) ==
    /\ key \in DictKeys(parameters)
    /\ DictGet(parameters, key) = DictGet(params, key)

\* C20 as stated: the final parameter set of every built request holds each
\* default key (RegionId unless DomainName is present) with its default
\* value, or with the caller's value if the caller supplied the key, and
\* every other caller-supplied key with the caller's value.
C20_DefaultOverlay ==
    InFlight =>
        /\ DefaultsOverlaid
        /\ \A key \in DictKeys(params) \ DictKeys(DefaultsInFlight) :
              CallerValueKept(key)

\* C20, amended: the final parameter set of every built request holds each
\* default key (RegionId unless DomainName is present) with its default
\* value, or with the caller's value if the caller supplied the key; every
\* other caller-supplied key but Signature with the caller's value; and
\* beside these only Signature, which is the signature computed for the
\* request whether or not the caller supplied a Signature of their own.
C20_DefaultOverlayButSignature ==
    InFlight =>
        /\ DefaultsOverlaid
        /\ \A key \in DictKeys(params) \ (DictKeys(DefaultsInFlight) \cup {T_Signature}) :
              CallerValueKept(key)
        /\ DictKeys(parameters)
              = DefaultKeysDue
                  \cup (DictKeys(params) \ DictKeys(DefaultsInFlight))
                  \cup {T_Signature}
        /\ DictGet(parameters, T_Signature) # PyStr(T_forged)

\* a request is in flight for a caller who supplied a RegionId of their own
\* and no DomainName: the final set holds the caller's region, not the
\* connection's
C20_Witness ==
    /\ InFlight
    /\ T_RegionId \in DictKeys(params)
    /\ T_DomainName \notin DictKeys(params)
    /\ DictGet(parameters, T_RegionId) = PyStr(T_cn_beijing)
    /\ DictGet(parameters, T_RegionId) # PyStr(conn.region_id)
    /\ DictGet(parameters, T_Format) = PyStr(T_JSON)

-----------------------------------------------------------------------------
(* Pagination, step by step, checked under Spec *)

\* C21: in a paginated get the first request carries no PageNumber and the
\* k-th request, k = 2, 3, ..., carries PageNumber = k, up to 1 + remaining;
\* a request is issued only after every earlier request has been answered
\* successfully; every request carries PageSize = 50, whatever PageSize the
\* caller supplied; the returned list holds the responses in request order.
C21_PagesInOrder ==
    paginated =>
        /\ \A k \in 1..Len(requests) :
              /\ DictGet(requests[k].parameters, T_PageSize)
                    = PyStr(Decimal(PAGE_SIZE))
              /\ IF k = 1
                 THEN T_PageNumber \notin DictKeys(requests[k].parameters)
                 ELSE /\ T_PageNumber \in DictKeys(requests[k].parameters)
                      /\ DictGet(requests[k].parameters, T_PageNumber)
                            = PyStr(Decimal(k))
                      /\ k <= 1 + _get_remaining_pages(served[1].TotalCount)
              /\ \A j \in 1..(k - 1) :
                    j <= Len(served) /\ served[j].status = "ok"
        /\ Len(requests) <= Len(served) + 1
        /\ result.kind = "returned" =>
              /\ Len(result.v) = Len(requests)
              /\ \A k \in 1..Len(result.v) :
                    result.v[k] = Response(served[k].TotalCount, k)

\* a paginated get returned three pages: its requests asked for 50 items
\* each, and for pages 2 and 3 after the first
C21_Witness ==
    /\ paginated
    /\ result.kind = "returned"
    /\ Len(requests) = 3
    /\ Len(result.v) = 3
    /\ DictGet(requests[1].parameters, T_PageSize) = PyStr(<<53, 48>>)
    /\ DictGet(requests[2].parameters, T_PageNumber) = PyStr(<<50>>)
    /\ DictGet(requests[3].parameters, T_PageNumber) = PyStr(<<51>>)
    /\ DictGet(requests[3].parameters, T_Action) = PyStr(T_DescribeInstances)
    /\ served[1].TotalCount = 101

-----------------------------------------------------------------------------
(* Several get calls on one connection, the caller handing the same        *)
(* parameter mapping to each                                               *)

\* the requests a connection has built when the caller may still begin
\* another call
MaxRequests == 4

\* the call is over; the caller calls get again with the mapping of the call
\* before
CallAgain ==
    /\ pc = "done"
    /\ nonces < MaxRequests
    /\ pc' = "idle"
    /\ result' = NoResult
    /\ UNCHANGED <<conn, params, paginated, parameters, requests, served,
                   responses, remaining_pages, i, clock, nonces, sign_vars,
                   cred_vars, init_vars, api_vars>>

NextCalls ==
    \/ \E pag \in BOOLEAN : Get(pag)
    \/ \E total_count \in ReportedCounts, content_type \in ContentTypes :
           ResponseOk(total_count, content_type)
    \/ \E body \in ErrorBodies : ResponseHttpError(body)
    \/ ResponseUrlError
    \/ CallAgain

\* an ecs connection constructed with explicit credentials, and a caller
\* about to call get on it with a mapping that names the action, or the
\* action and a domain, or the action and a nonce
InitCalls ==
    /\ Init
    /\ conn = Connection(T_cn_hangzhou, "ecs", PyStr(T_key_id),
                         PyStr(T_some_secret_access_key), NoEnviron, NoFiles)
    /\ T_Action \in DictKeys(params)
    /\ DictKeys(params) \subseteq {T_Action, T_DomainName, T_SignatureNonce}

SpecCalls == InitCalls /\ [][NextCalls]_vars

\* C22: the first request of every paginated get asks for page 1: it
\* carries no PageNumber that denotes another page, also when the mapping
\* was handed to an earlier paginated get that fetched several pages.
C22_PaginatedStartsAtPageOne ==
    (paginated /\ pc \in {"first_page", "next_page", "done"} /\ requests # <<>>) =>
        PageOf(requests[1]) = <<49>>

\* C23: a get call does not write into the caller's parameter mapping: no
\* step of get(params) or of get(params, paginated=True) changes params, so
\* that after the call it holds the keys and values it held before.
C23_CallerMappingUntouched == [][params' = params]_vars

-----------------------------------------------------------------------------
(* The time the blocking waits take, checked under SpecApi *)

\* the timeout of the running wait, in seconds
WaitTimeoutSecs ==
    IF StartsBlocking THEN BLOCK_TILL_RUNNING_SECS ELSE call.args.timeout_secs.v

\* C24: in the blocking waits of create_and_start_instance (600 seconds) and
\* of create_snapshot (timeout_secs), which sleep 30 seconds before each
\* poll, no sleep-and-poll iteration begins once the accumulated sleep time
\* has reached the timeout, and the accumulated sleep time is no more than
\* the timeout when the wait gives up.  (Stated for the positive timeouts.)
C24_TimeoutEnforced ==
    ((StartsBlocking \/ SnapshotBlocking) /\ WaitTimeoutSecs > 0) =>
        /\ (apc \in {"get_instance", "describe_snapshot"}) =>
              local.total_time - 30 < WaitTimeoutSecs
        /\ (ApiDone /\ returned.kind = "raised" /\ returned = WaitTimeout) =>
              local.total_time <= WaitTimeoutSecs

-----------------------------------------------------------------------------
(* The query string that is sent and the text that was signed, checked     *)
(* under Spec                                                              *)

\* the text the signer's percent-encoding gives a key or value
SignerText(bytes) == _percent_encode(PyStr(bytes), None, None).v

\* the final parameters written as the signer encodes them: key=value pairs
\* joined with '&', in the order of the parameter set
SignerQuery(final) ==
    JoinWith(<<38>>,
             [k \in 1..Len(final) |->
                 SignerText(final[k][1]) \o <<61>> \o SignerText(final[k][2].v)])

\* C25: in the query string of every request each key and each value of the
\* final parameter set appears as the text the signer's percent-encoding
\* gives it (space as %20, '~' unescaped, '*' as %2A).
C25_QueryEncodedAsSigned ==
    \A k \in 1..Len(requests) :
        requests[k].url
            = conn.service \o <<47, 63>> \o SignerQuery(requests[k].parameters)

-----------------------------------------------------------------------------
(* The charset of a successful response, checked under Spec *)

\* C26: a successful response never makes the call fail, whether or not its
\* content-type header declares a charset: a call whose last answer was a
\* successful response has not raised.
C26_CharsetFallback ==
    (served # <<>> /\ served[Len(served)].status = "ok") =>
        result.kind # "raised"

-----------------------------------------------------------------------------
(* A connection's lifetime: it is constructed, and get is called on it     *)
(* again and again                                                         *)

\* EcsConnection('cn-hangzhou') with both keys or with neither, in an
\* environment that holds credentials or holds none, no file present
InitLifetime ==
    /\ InitConstruct
    /\ init_args.cls = "EcsConnection"
    /\ init_args.region_id = T_cn_hangzhou
    /\ files = NoFiles

NextLifetime ==
    \/ Construct
    \/ \E pag \in BOOLEAN : Get(pag)
    \/ \E total_count \in ReportedCounts, content_type \in ContentTypes :
           ResponseOk(total_count, content_type)
    \/ \E body \in ErrorBodies : ResponseHttpError(body)
    \/ ResponseUrlError
    \/ CallAgain

SpecLifetime == InitLifetime /\ [][NextLifetime]_vars

\* the constructor was handed both keys
KeysPassed ==
    ~IsNone(init_args.access_key_id) /\ ~IsNone(init_args.secret_access_key)

\* C27: once a Connection is constructed no get call, paginated or not,
\* succeeding or failing, changes its region id, service URL, API version,
\* access key id or secret; credentials are resolved during construction
\* only (no step after it looks anything up), and nothing is looked up at
\* all when both keys were passed to the constructor.
C27_ConnectionImmutable ==
    /\ [][ipc = "done" => UNCHANGED <<conn, lookups, creds>>]_vars
    /\ []((ipc = "done" /\ KeysPassed) =>
              /\ lookups = <<>>
              /\ conn.raised = None
              /\ conn.region_id = init_args.region_id
              /\ conn.access_key_id = init_args.access_key_id.v
              /\ conn.secret_access_key = init_args.secret_access_key.v)
    /\ []((ipc = "done" /\ ~KeysPassed /\ conn.raised = None) =>
              /\ lookups # <<>>
              /\ conn.access_key_id = creds.access_key_id.v
              /\ conn.secret_access_key = creds.secret_access_key.v)

\* a connection constructed with both keys, in an environment that holds
\* other credentials, has finished a paginated get of several pages and a
\* call after it: it still holds the keys it was given
C27_Witness ==
    /\ ipc = "done"
    /\ KeysPassed
    /\ environ["ALI_ACCESS_KEY_ID"] = PyStr(T_env_id)
    /\ pc = "done"
    /\ nonces >= 3
    /\ Len(requests) = 1
    /\ conn.access_key_id = T_key_id
    /\ conn.secret_access_key = T_some_secret_access_key
    /\ conn.region_id = T_cn_hangzhou
    /\ lookups = <<>>

-----------------------------------------------------------------------------
(* The nonces of the requests a connection issues, checked under SpecCalls *)

\* the SignatureNonce a request carries
NonceOf(req) == DictGet(req.parameters, T_SignatureNonce).v

\* the caller's mapping has a SignatureNonce of its own
CallerNonce == T_SignatureNonce \in DictKeys(params)

\* no two requests of the call in progress carry the same nonce
NoncesDiffer ==
    \A j \in 1..Len(requests), k \in 1..Len(requests) :
        j # k => NonceOf(requests[j]) # NonceOf(requests[k])

\* C28 as stated: no two requests share a SignatureNonce, the successive
\* page requests of one paginated get included.
C28_NoncePerRequest == NoncesDiffer

\* C28 as the code has it: a request built from a caller mapping without
\* SignatureNonce carries the value uuid4 drew for that request alone (each
\* request sent takes the next draw, and no draw is taken twice, within a
\* call or across calls), so no two such requests share a nonce; a mapping
\* that has a SignatureNonce puts the caller's value on every request of
\* the call.
C28_NoncePerRequestUnlessSupplied ==
    /\ [](~CallerNonce => NoncesDiffer)
    /\ [](CallerNonce =>
              \A k \in 1..Len(requests) :
                  NonceOf(requests[k]) = DictGet(params, T_SignatureNonce).v)
    /\ [][(requests' # requests /\ requests' # <<>> /\ ~CallerNonce) =>
              /\ NonceOf(requests'[Len(requests')]) = uuid4(nonces)
              /\ nonces' = nonces + 1]_vars
    /\ [][nonces' >= nonces]_vars

\* the second call on a connection, a paginated get of three pages whose
\* caller names no nonce, is over: its three requests carry three nonces,
\* none of them the nonce of the call before
C28_Witness ==
    /\ pc = "done"
    /\ paginated
    /\ ~CallerNonce
    /\ Len(requests) = 3
    /\ nonces = 4
    /\ NonceOf(requests[1]) = uuid4(1)
    /\ NonceOf(requests[2]) = uuid4(2)
    /\ NonceOf(requests[3]) = uuid4(3)
    /\ result.kind = "returned"

-----------------------------------------------------------------------------
(* Empty environment values and the choice of the configuration file,      *)
(* checked under SpecCreds                                                 *)

\* the variable is set to the empty string
IsEmpty(name) == IsSet(name) /\ environ[name].v = <<>>

\* find_credentials answered from the environment: it read no file
FromEnvironment == cpc = "done" /\ creds.raised = None /\ FilesRead = {}

\* C29: find_credentials returns the environment pair only if both
\* variables are set and non-empty; when either is the empty string the
\* lookup goes on to the configuration file, and no empty access key id or
\* secret comes back from the environment.
C29_EnvironmentNonEmpty ==
    /\ FromEnvironment =>
          /\ IsSet("ALI_ACCESS_KEY_ID") /\ ~IsEmpty("ALI_ACCESS_KEY_ID")
          /\ IsSet("ALI_SECRET_ACCESS_KEY") /\ ~IsEmpty("ALI_SECRET_ACCESS_KEY")
          /\ creds.access_key_id.v # <<>>
          /\ creds.secret_access_key.v # <<>>
    /\ (cpc = "done" /\ (IsEmpty("ALI_ACCESS_KEY_ID") \/ IsEmpty("ALI_SECRET_ACCESS_KEY"))) =>
          Cardinality(FilesRead) = 1

\* $HOME/.aliyun.cfg, /root/.aliyun.cfg when HOME is not set
UserPath ==
    IF IsSet("HOME") THEN environ["HOME"].v \o <<47>> \o T_aliyun_cfg
    ELSE T_root_aliyun_cfg

\* the file the claim has find_credentials consult
ChosenPath ==
    IF UserPath \in DOMAIN files /\ files[UserPath].exists
    THEN UserPath ELSE T_etc_aliyun_cfg

\* how many files find_credentials read
ReadCount == Cardinality({k \in 1..Len(lookups) : lookups[k].op = "read"})

\* C30: when the environment does not supply the credentials,
\* find_credentials reads exactly one file: $HOME/.aliyun.cfg if that path
\* exists, /etc/aliyun.cfg otherwise.  What it returns is what that one
\* file holds: when the per-user path exists /etc/aliyun.cfg is not read,
\* and the call fails if the per-user file holds no credentials, whatever
\* /etc/aliyun.cfg holds.
C30_OneConfigurationFile ==
    (cpc = "done" /\ ~(IsSet("ALI_ACCESS_KEY_ID") /\ IsSet("ALI_SECRET_ACCESS_KEY"))) =>
        /\ ReadCount = 1
        /\ FilesRead = {ChosenPath}
        /\ Exists(UserPath) \in {lookups[k] : k \in 1..Len(lookups)}
        /\ IF LacksCredentials(ChosenPath)
           THEN creds.raised # None
           ELSE creds = Credentials(FileOption(ChosenPath, "access_key_id"),
                                    FileOption(ChosenPath, "secret_access_key"))

\* the per-user file exists with no [default] section while /etc/aliyun.cfg
\* holds a full pair: only the per-user file was read and the call failed
C30_Witness ==
    /\ cpc = "done"
    /\ ~IsSet("ALI_ACCESS_KEY_ID")
    /\ ~IsSet("ALI_SECRET_ACCESS_KEY")
    /\ environ["HOME"] = PyStr(T_home_u)
    /\ files[T_home_u_aliyun_cfg] = NoSectionFile(T_user_id, T_user_secret)
    /\ files[T_etc_aliyun_cfg] = FullFile(T_etc_id, T_etc_secret)
    /\ FilesRead = {T_home_u_aliyun_cfg}
    /\ creds = Raise("Error")

\* no per-user file exists and /etc/aliyun.cfg gave the pair
C30_FallbackWitness ==
    /\ cpc = "done"
    /\ ~IsSet("ALI_ACCESS_KEY_ID")
    /\ files[T_home_u_aliyun_cfg] = NoFile
    /\ environ["HOME"] = PyStr(T_home_u)
    /\ FilesRead = {T_etc_aliyun_cfg}
    /\ creds = Credentials(PyStr(T_etc_id), PyStr(T_etc_secret))

=============================================================================
